---- MODULE Spec2Model ----
(***************************************************************************)
(* A model of zweb: the hostname rewriting library (dns.py), the           *)
(* resolution server (zweb_socket_server.py) and the peer cache            *)
(* (zweb_p2p.py).                                                          *)
(*                                                                         *)
(* Text is modelled as sequences of Unicode code points (Python str) and   *)
(* network payloads as sequences of byte values (Python bytes), so that    *)
(* strip, upper, lower, split, decode and the URL parser are computed and  *)
(* not assumed.                                                            *)
(***************************************************************************)
EXTENDS Integers, Sequences, FiniteSets, TLC

(***************************************************************************)
(* Python str primitives                                                   *)
(***************************************************************************)

\* str.isalnum for one character (code points below 256)
IsAlnum(c) ==
    \/ c \in 48..57 \/ c \in 65..90 \/ c \in 97..122
    \/ c \in {170, 178, 179, 181, 185, 186, 188, 189, 190}
    \/ (c \in 192..255 /\ c \notin {215, 247})

\* str.lower for one character (code points below 256)
LowerChar(c) ==
    IF c \in 65..90 \/ (c \in 192..222 /\ c # 215) THEN c + 32 ELSE c

\* str.upper for one character; the two non-ASCII letters whose upper case is
\* an ASCII letter (dotless i, long s) are kept, sharp s (two letters) is not
\* part of any input
UpperChar(c) ==
    IF c \in 97..122 \/ (c \in 224..254 /\ c # 247) THEN c - 32
    ELSE IF c = 305 THEN 73
    ELSE IF c = 383 THEN 83
    ELSE c

Lower(s) == [i \in 1..Len(s) |-> LowerChar(s[i])]

Upper(s) == [i \in 1..Len(s) |-> UpperChar(s[i])]

\* s[i:j] with Python's 0-based, end-exclusive indices, 0 <= i
Slice(s, i, j) ==
    IF j <= i \/ i >= Len(s) THEN << >>
    ELSE SubSeq(s, i + 1, IF j > Len(s) THEN Len(s) ELSE j)

\* index of the first character of s not satisfying the set test, from the left
RECURSIVE LStripSet(_, _)
LStripSet(s, chars) ==
    IF s # << >> /\ Head(s) \in chars THEN LStripSet(Tail(s), chars) ELSE s

RECURSIVE RStripSet(_, _)
RStripSet(s, chars) ==
    IF s # << >> /\ s[Len(s)] \in chars
    THEN RStripSet(SubSeq(s, 1, Len(s) - 1), chars) ELSE s

\* str.strip(chars)
StripSet(s, chars) == RStripSet(LStripSet(s, chars), chars)

\* the characters str.isspace accepts (code points below 256)
WhiteSpace == {9, 10, 11, 12, 13, 28, 29, 30, 31, 32, 133, 160}

\* str.strip()
Strip(s) == StripSet(s, WhiteSpace)

\* s.startswith(p) at 0-based offset i
MatchAt(s, p, i) ==
    /\ i + Len(p) <= Len(s)
    /\ \A k \in 1..Len(p) : s[i + k] = p[k]

\* str.find(p, start): 0-based index of the first occurrence, -1 when none
Find(s, p, start) ==
    LET hits == {i \in start..(Len(s) - Len(p)) : MatchAt(s, p, i)}
    IN IF hits = {} THEN -1 ELSE CHOOSE i \in hits : \A j \in hits : i <= j

\* str.rfind(p)
RFind(s, p) ==
    LET hits == {i \in 0..(Len(s) - Len(p)) : MatchAt(s, p, i)}
    IN IF hits = {} THEN -1 ELSE CHOOSE i \in hits : \A j \in hits : i >= j

\* p in s
Contains(s, p) == Find(s, p, 0) >= 0

\* s.endswith(p)
EndsWith(s, p) == Len(p) <= Len(s) /\ MatchAt(s, p, Len(s) - Len(p))

\* str.split(sep) for a one-character separator: a sequence of strings
RECURSIVE Split(_, _)
Split(s, sep) ==
    LET i == Find(s, <<sep>>, 0)
    IN IF i < 0 THEN <<s>>
       ELSE <<Slice(s, 0, i)>> \o Split(Slice(s, i + 1, Len(s)), sep)

\* [x for x in parts if x]
RECURSIVE NonEmpty(_)
NonEmpty(parts) ==
    IF parts = << >> THEN << >>
    ELSE IF Head(parts) = << >> THEN NonEmpty(Tail(parts))
    ELSE <<Head(parts)>> \o NonEmpty(Tail(parts))

\* sep.join(parts) for a one-character separator
RECURSIVE Join(_, _)
Join(parts, sep) ==
    IF parts = << >> THEN << >>
    ELSE IF Len(parts) = 1 THEN parts[1]
    ELSE parts[1] \o <<sep>> \o Join(Tail(parts), sep)

\* str.replace(old, new) for one-character old and new
ReplaceChar(s, old, new) == [i \in 1..Len(s) |-> IF s[i] = old THEN new ELSE s[i]]

\* str.replace(old, "") for a one-character old
RECURSIVE RemoveChar(_, _)
RemoveChar(s, old) ==
    IF s = << >> THEN << >>
    ELSE IF Head(s) = old THEN RemoveChar(Tail(s), old)
    ELSE <<Head(s)>> \o RemoveChar(Tail(s), old)

(***************************************************************************)
(* Text literals of the source, as code points                             *)
(***************************************************************************)

\* "."
DOT == 46

\* "/"
SLASH == 47

\* "-"
DASH == 45

\* "\n"
NL == 10

\* "://"
SchemeSep == <<58, 47, 47>>

\* "http://"
HttpPrefix == <<104, 116, 116, 112, 58, 47, 47>>

\* ".github.io"
GITHUB_PAGES_SUFFIX == <<46, 103, 105, 116, 104, 117, 98, 46, 105, 111>>

\* "zwb"
ZWB == <<122, 119, 98>>

\* "PING"
PING == <<80, 73, 78, 71>>

\* "SERVERS"
SERVERS == <<83, 69, 82, 86, 69, 82, 83>>

\* "unknown"
UNKNOWN == <<117, 110, 107, 110, 111, 119, 110>>

\* "a hostname or URL is required"
MsgHostnameRequired ==
    <<97, 32, 104, 111, 115, 116, 110, 97, 109, 101, 32, 111, 114, 32, 85, 82, 76,
      32, 105, 115, 32, 114, 101, 113, 117, 105, 114, 101, 100>>

\* "unable to determine hostname from '" raw "'"
MsgNoHostname(raw) ==
    <<117, 110, 97, 98, 108, 101, 32, 116, 111, 32, 100, 101, 116, 101, 114, 109,
      105, 110, 101, 32, 104, 111, 115, 116, 110, 97, 109, 101, 32, 102, 114, 111,
      109, 32, 39>> \o raw \o <<39>>

\* "suffix must not be empty"
MsgSuffixEmpty ==
    <<115, 117, 102, 102, 105, 120, 32, 109, 117, 115, 116, 32, 110, 111, 116, 32,
      98, 101, 32, 101, 109, 112, 116, 121>>

\* "domain must not be empty"
MsgDomainEmpty ==
    <<100, 111, 109, 97, 105, 110, 32, 109, 117, 115, 116, 32, 110, 111, 116, 32,
      98, 101, 32, 101, 109, 112, 116, 121>>

\* "no domain provided"
MsgNoDomain ==
    <<110, 111, 32, 100, 111, 109, 97, 105, 110, 32, 112, 114, 111, 118, 105, 100,
      101, 100>>

\* "request was not valid UTF-8"
MsgNotUtf8 ==
    <<114, 101, 113, 117, 101, 115, 116, 32, 119, 97, 115, 32, 110, 111, 116, 32,
      118, 97, 108, 105, 100, 32, 85, 84, 70, 45, 56>>

\* "pong"
MsgPong == <<112, 111, 110, 103>>

\* "(empty request)"
EmptyRequestText ==
    <<40, 101, 109, 112, 116, 121, 32, 114, 101, 113, 117, 101, 115, 116, 41>>

\* "Lookup failed"
LookupFailedText == <<76, 111, 111, 107, 117, 112, 32, 102, 97, 105, 108, 101, 100>>

(***************************************************************************)
(* urllib.parse.urlparse, as used by _parse_input: the scheme, the netloc, *)
(* the path and the hostname property.  Inputs hold no "[" or "]" (IPv6    *)
(* literals), so the bracket checks of urlsplit are not modelled.          *)
(***************************************************************************)

\* urllib.parse.scheme_chars: letters, digits, "+", "-", "."
IsSchemeChar(c) == c \in 48..57 \/ c \in 65..90 \/ c \in 97..122 \/ c \in {43, 45, 46}

\* urllib.parse.uses_params: '', ftp, hdl, prospero, http, imap, https, shttp,
\* rtsp, rtsps, rtspu, sip, sips, mms, sftp, tel
UsesParams ==
    { << >>, <<102, 116, 112>>, <<104, 100, 108>>,
      <<112, 114, 111, 115, 112, 101, 114, 111>>, <<104, 116, 116, 112>>,
      <<105, 109, 97, 112>>, <<104, 116, 116, 112, 115>>,
      <<115, 104, 116, 116, 112>>, <<114, 116, 115, 112>>,
      <<114, 116, 115, 112, 115>>, <<114, 116, 115, 112, 117>>,
      <<115, 105, 112>>, <<115, 105, 112, 115>>, <<109, 109, 115>>,
      <<115, 102, 116, 112>>, <<116, 101, 108>> }

\* the smallest non-negative member of a set of indices, or dflt when none
MinFound(idx, dflt) ==
    LET found == {i \in idx : i >= 0}
    IN IF found = {} THEN dflt ELSE CHOOSE i \in found : \A j \in found : i <= j

\* s up to the first ch (all of s when it holds none)
CutAt(s, ch) ==
    LET i == Find(s, <<ch>>, 0)
    IN IF i >= 0 THEN Slice(s, 0, i) ELSE s

\* s after the last ch (all of s when it holds none): rpartition(ch)[2]
AfterLast(s, ch) ==
    LET i == RFind(s, <<ch>>)
    IN IF i >= 0 THEN Slice(s, i + 1, Len(s)) ELSE s

\* urlsplit: leading C0 controls and spaces stripped, then tab, CR and LF
\* removed everywhere
UrlClean(url) ==
    RemoveChar(RemoveChar(RemoveChar(LStripSet(url, 0..32), 9), 13), 10)

\* urlsplit: the length of the scheme before the first ":", 0 when the text
\* before it is no scheme
SchemeEnd(u) ==
    LET i == Find(u, <<58>>, 0)
    IN IF /\ i > 0
          /\ (u[1] \in 65..90 \/ u[1] \in 97..122)
          /\ \A k \in 1..i : IsSchemeChar(u[k])
       THEN i ELSE 0

UrlScheme(u) == Lower(Slice(u, 0, SchemeEnd(u)))

UrlAfterScheme(u) == IF SchemeEnd(u) > 0 THEN Slice(u, SchemeEnd(u) + 1, Len(u)) ELSE u

\* _splitnetloc(url, 2): where the netloc ends
NetlocEnd(u) ==
    MinFound({Find(u, <<47>>, 2), Find(u, <<63>>, 2), Find(u, <<35>>, 2)}, Len(u))

\* urlsplit: the netloc of a url that starts with "//"
UrlNetloc(u) == IF Slice(u, 0, 2) = <<47, 47>> THEN Slice(u, 2, NetlocEnd(u)) ELSE << >>

UrlAfterNetloc(u) ==
    IF Slice(u, 0, 2) = <<47, 47>> THEN Slice(u, NetlocEnd(u), Len(u)) ELSE u

\* urlparse: _splitparams cuts the ";params" of the last path segment for the
\* schemes that use them
SplitParams(scheme, url) ==
    LET slash == RFind(url, <<47>>)
        semi == Find(url, <<59>>, IF slash >= 0 THEN slash ELSE 0)
    IN IF scheme \in UsesParams /\ semi >= 0 THEN Slice(url, 0, semi) ELSE url

\* urlparse(url).path: the fragment ("#") and then the query ("?") are cut off
UrlPath(url) ==
    SplitParams(UrlScheme(UrlClean(url)),
                CutAt(CutAt(UrlAfterNetloc(UrlAfterScheme(UrlClean(url))), 35), 63))

\* the hostname property for a host without brackets: lower-cased up to a "%"
LowerHost(host) ==
    LET pct == Find(host, <<37>>, 0)
    IN IF pct >= 0
       THEN Lower(Slice(host, 0, pct)) \o Slice(host, pct, Len(host))
       ELSE Lower(host)

\* urlparse(url).hostname: the netloc after the last "@" and before the first
\* ":"; None is the empty string here (the caller only tests its truth value)
UrlHostname(url) ==
    LowerHost(CutAt(AfterLast(UrlNetloc(UrlAfterScheme(UrlClean(url))), 64), 58))

(***************************************************************************)
(* dns.py                                                                  *)
(***************************************************************************)

\* a raised ValueError with its message
ValueError(msg) == [ok |-> FALSE, error |-> msg]

\* lines 74-75 of _parse_input: the text handed to urlparse
UrlCandidate(stripped) ==
    IF Contains(stripped, SchemeSep) THEN stripped ELSE HttpPrefix \o stripped

\* lines 71-83 of _parse_input, given the stripped input and what urlparse
\* found in it
parse_result(raw, stripped, host, path) ==
    IF stripped = << >> THEN ValueError(MsgHostnameRequired)
    ELSE IF host = << >> THEN ValueError(MsgNoHostname(raw))
    ELSE [ok |-> TRUE,
          hostname |-> RStripSet(host, {DOT}),
          path_segments |-> NonEmpty(Split(path, SLASH))]

\* _parse_input: [ok, hostname, path_segments] or a ValueError
parse_input(raw) ==
    parse_result(raw, Strip(raw), UrlHostname(UrlCandidate(Strip(raw))),
                 UrlPath(UrlCandidate(Strip(raw))))

\* _sanitise_label: lower-case, every run of non-alphanumerics becomes one "-",
\* leading and trailing "-" removed
RECURSIVE sanitise_chars(_, _)
sanitise_chars(s, previous_dash) ==
    IF s = << >> THEN << >>
    ELSE IF IsAlnum(Head(s)) THEN <<Head(s)>> \o sanitise_chars(Tail(s), FALSE)
    ELSE IF previous_dash THEN sanitise_chars(Tail(s), TRUE)
    ELSE <<DASH>> \o sanitise_chars(Tail(s), TRUE)

sanitise_label(label) == StripSet(sanitise_chars(Lower(label), FALSE), {DASH})

\* hostname[: -len(_GITHUB_PAGES_SUFFIX)].strip(".")
github_owner(hostname) ==
    StripSet(Slice(hostname, 0, Len(hostname) - Len(GITHUB_PAGES_SUFFIX)), {DOT})

\* lines 118-125 of _github_pages_alias, given the stripped suffix and the
\* sanitised label
alias_result(sfx, candidate) ==
    IF sfx = << >> THEN ValueError(MsgSuffixEmpty)
    ELSE IF candidate = << >> THEN [ok |-> TRUE, alias |-> << >>]
    ELSE [ok |-> TRUE, alias |-> candidate \o <<DOT>> \o sfx]

\* a variant of _github_pages_alias that takes the label from the owner alone
github_pages_alias_of_owner(hostname, path_segments, suffix) ==
    IF ~EndsWith(hostname, GITHUB_PAGES_SUFFIX) THEN [ok |-> TRUE, alias |-> << >>]
    ELSE alias_result(StripSet(suffix, {DOT}), sanitise_label(github_owner(hostname)))

\* _github_pages_alias: [ok, alias] with alias = << >> for None, or a ValueError
github_pages_alias(hostname, path_segments, suffix) ==
    IF ~EndsWith(hostname, GITHUB_PAGES_SUFFIX) THEN [ok |-> TRUE, alias |-> << >>]
    ELSE alias_result(StripSet(suffix, {DOT}),
                      sanitise_label(IF path_segments # << >> THEN path_segments[1]
                                     ELSE github_owner(hostname)))

\* a variant of the except branch that keeps the raw text as it was passed
parse_or_fallback_untrimmed(p, raw) ==
    IF p.ok THEN p
    ELSE [ok |-> TRUE, hostname |-> raw, path_segments |-> << >>]

\* the except branch of _split_hostname_and_path
parse_or_fallback(p, raw) ==
    IF p.ok THEN p
    ELSE [ok |-> TRUE, hostname |-> RStripSet(Strip(raw), {DOT}),
          path_segments |-> << >>]

\* _split_hostname_and_path: _parse_input, and on ValueError the stripped raw
\* text as the hostname with no path
split_hostname_and_path(raw) == parse_or_fallback(parse_input(raw), raw)

\* lines 147-156 of _replace_suffix, given the labels and the stripped suffix
replace_last(labels, sfx) ==
    IF labels = << >> THEN ValueError(MsgDomainEmpty)
    ELSE IF sfx = << >> THEN ValueError(MsgSuffixEmpty)
    ELSE IF Len(labels) = 1 THEN [ok |-> TRUE, value |-> labels[1] \o <<DOT>> \o sfx]
    ELSE [ok |-> TRUE,
          value |-> Join(SubSeq(labels, 1, Len(labels) - 1) \o <<sfx>>, DOT)]

\* a variant of _replace_suffix without line 150: the suffix as it was passed
replace_suffix_as_passed(domain, suffix) ==
    replace_last(NonEmpty(Split(domain, DOT)), suffix)

\* _replace_suffix: [ok, value] or a ValueError
replace_suffix(domain, suffix) ==
    replace_last(NonEmpty(Split(domain, DOT)), StripSet(suffix, {DOT}))

\* a variant of zone that keeps every label but the last
zone_of_all_labels(hostname, alias, labels) ==
    IF hostname = << >> THEN [ok |-> TRUE, value |-> << >>]
    ELSE IF alias.alias # << >> THEN [ok |-> TRUE, value |-> alias.alias]
    ELSE IF labels = << >> THEN [ok |-> TRUE, value |-> << >>]
    ELSE replace_suffix(Join(labels, DOT), ZWB)

\* lines 167-179 of zone, given the hostname, the alias and the labels
zone_of(hostname, alias, labels) ==
    IF hostname = << >> THEN [ok |-> TRUE, value |-> << >>]
    ELSE IF alias.alias # << >> THEN [ok |-> TRUE, value |-> alias.alias]
    ELSE IF labels = << >> THEN [ok |-> TRUE, value |-> << >>]
    ELSE IF Len(labels) < 2 THEN replace_suffix(labels[1], ZWB)
    ELSE replace_suffix(Join(SubSeq(labels, Len(labels) - 1, Len(labels)), DOT), ZWB)

zone_split(sp) ==
    zone_of(sp.hostname, github_pages_alias(sp.hostname, sp.path_segments, ZWB),
            NonEmpty(Split(sp.hostname, DOT)))

\* zone(domain): [ok, value]
zone(domain) == zone_split(split_hostname_and_path(domain))

\* a variant of node that returns the first label alone
node_of_first_label(sp, alias, labels) ==
    IF sp.hostname = << >> THEN [ok |-> TRUE, value |-> << >>]
    ELSE IF alias.alias # << >>
         THEN [ok |-> TRUE,
               value |-> IF sp.path_segments # << >>
                         THEN sanitise_label(github_owner(sp.hostname)) ELSE << >>]
    ELSE [ok |-> TRUE, value |-> IF labels # << >> THEN labels[1] ELSE << >>]

\* a variant of node that drops the first label with the last two
node_of_inner_labels(sp, alias, labels) ==
    IF sp.hostname = << >> THEN [ok |-> TRUE, value |-> << >>]
    ELSE IF alias.alias # << >>
         THEN [ok |-> TRUE,
               value |-> IF sp.path_segments # << >>
                         THEN sanitise_label(github_owner(sp.hostname)) ELSE << >>]
    ELSE IF Len(labels) <= 2
         THEN [ok |-> TRUE, value |-> IF labels # << >> THEN labels[1] ELSE << >>]
    ELSE [ok |-> TRUE, value |-> Join(SubSeq(labels, 2, Len(labels) - 1), DOT)]

\* lines 190-203 of node, given the split input, the alias and the labels
node_of(sp, alias, labels) ==
    IF sp.hostname = << >> THEN [ok |-> TRUE, value |-> << >>]
    ELSE IF alias.alias # << >>
         THEN [ok |-> TRUE,
               value |-> IF sp.path_segments # << >>
                         THEN sanitise_label(github_owner(sp.hostname)) ELSE << >>]
    ELSE IF Len(labels) <= 2
         THEN [ok |-> TRUE, value |-> IF labels # << >> THEN labels[1] ELSE << >>]
    ELSE [ok |-> TRUE, value |-> Join(SubSeq(labels, 1, Len(labels) - 2), DOT)]

node_split(sp) ==
    node_of(sp, github_pages_alias(sp.hostname, sp.path_segments, ZWB),
            NonEmpty(Split(sp.hostname, DOT)))

\* node(domain): [ok, value]
node(domain) == node_split(split_hostname_and_path(domain))

\* lines 210-218 of name, given the hostname and the alias
name_of(hostname, alias, suffix) ==
    IF hostname = << >> THEN ValueError(MsgDomainEmpty)
    ELSE IF ~alias.ok THEN alias
    ELSE IF alias.alias # << >> THEN [ok |-> TRUE, value |-> alias.alias]
    ELSE replace_suffix(RStripSet(hostname, {DOT}), suffix)

name_split(sp, suffix) ==
    name_of(sp.hostname, github_pages_alias(sp.hostname, sp.path_segments, suffix),
            suffix)

\* name(domain, suffix): [ok, value] or a ValueError
name(domain, suffix) == name_split(split_hostname_and_path(domain), suffix)

\* lines 225-236 of _describe_uncached, given the split input, the alias and
\* name(hostname) (zone and node raise nothing)
describe_of(sp, alias, n) ==
    IF sp.hostname = << >> THEN ValueError(MsgHostnameRequired)
    ELSE IF alias.alias # << >>
         THEN [ok |-> TRUE,
               parts |-> [hostname |-> sp.hostname, zone |-> alias.alias,
                          node |-> IF sp.path_segments # << >>
                                   THEN sanitise_label(github_owner(sp.hostname))
                                   ELSE << >>,
                          name |-> alias.alias]]
    ELSE IF ~n.ok THEN n
    ELSE [ok |-> TRUE,
          parts |-> [hostname |-> sp.hostname, zone |-> zone(sp.hostname).value,
                     node |-> node(sp.hostname).value, name |-> n.value]]

describe_split(sp) ==
    describe_of(sp, github_pages_alias(sp.hostname, sp.path_segments, ZWB),
                name(sp.hostname, ZWB))

\* _describe_uncached: [ok, parts] with parts a DomainParts, or a ValueError
describe_uncached(raw) == describe_split(split_hostname_and_path(raw))

\* functools.lru_cache(maxsize=512) around describe: the memo is a sequence of
\* [key, value] entries, least recently used first
lru_maxsize == 512

\* the position of key in the memo, 0 when it is not there
MemoIndex(memo, key) ==
    LET hits == {i \in 1..Len(memo) : memo[i].key = key}
    IN IF hits = {} THEN 0 ELSE CHOOSE i \in hits : TRUE

\* a new entry is stored as the most recent one, and the least recently used
\* entry is evicted when the memo is full
LruInsert(memo, entry) ==
    IF Len(memo) >= lru_maxsize THEN Append(Tail(memo), entry) ELSE Append(memo, entry)

\* a variant of the memo that stores a raised error like a value
describe_miss_keeps_errors(memo, raw, computed) ==
    [result |-> computed,
     memo |-> LruInsert(memo, [key |-> raw, value |-> computed])]

\* a miss: the value is computed and stored; a raised error is not stored
describe_miss(memo, raw, computed) ==
    IF ~computed.ok THEN [result |-> computed, memo |-> memo]
    ELSE [result |-> computed,
          memo |-> LruInsert(memo, [key |-> raw, value |-> computed])]

\* a variant of the memo whose hit returns the value of its oldest entry
describe_at_oldest(memo, raw, i) ==
    IF i > 0
    THEN [result |-> memo[1].value,
          memo |-> Append(SubSeq(memo, 1, i - 1) \o SubSeq(memo, i + 1, Len(memo)),
                          memo[i])]
    ELSE describe_miss(memo, raw, describe_uncached(raw))

\* a variant of the memo whose hit is no use of the entry
describe_at_unmoved(memo, raw, i) ==
    IF i > 0 THEN [result |-> memo[i].value, memo |-> memo]
    ELSE describe_miss(memo, raw, describe_uncached(raw))

\* a hit at position i > 0: the stored value, and the entry becomes the most
\* recently used one
describe_at(memo, raw, i) ==
    IF i > 0
    THEN [result |-> memo[i].value,
          memo |-> Append(SubSeq(memo, 1, i - 1) \o SubSeq(memo, i + 1, Len(memo)),
                          memo[i])]
    ELSE describe_miss(memo, raw, describe_uncached(raw))

\* describe(raw) on a given memo: [result, memo]
describe(memo, raw) == describe_at(memo, raw, MemoIndex(memo, raw))

\* request.strip() or "(empty request)", message.strip() or "Lookup failed"
OrDefault(text, dflt) == IF text # << >> THEN text ELSE dflt

\* build_error_page: the HTML document as the sequence of its literal parts
\* and the two interpolated texts
build_error_page(message, request) ==
    << "<html><head><title>DNS Lookup Error</title><style>...</style></head><body><h1>Domain lookup failed</h1><p>The DNS helper was unable to resolve <code>",
       OrDefault(Strip(request), EmptyRequestText),
       "</code>.</p><p><strong>Reason:</strong> ",
       OrDefault(Strip(message), LookupFailedText),
       "</p><p>Please verify the address and try again or choose a different server.</p></body></html>" >>

(***************************************************************************)
(* zweb_socket_server.py                                                   *)
(***************************************************************************)

HOST == "127.0.0.1"

PORT == 65432

DEFAULT_DOMAIN_SERVER == "1.1.1.1"

\* dict.get(key): the value, or None for a missing key
None == "None"

DictGet(entry, key) == IF key \in DOMAIN entry THEN entry[key] ELSE None

\* the truth value of a str-or-None
Truthy(v) == v # None /\ v # ""

ServerEntry(n, a, d) == [name |-> n, address |-> a, description |-> d]

\* lines 66-71: the entry of one extra server, << >> when it has no address
ExtraEntry(entry) ==
    IF ~Truthy(DictGet(entry, "address")) THEN << >>
    ELSE << ServerEntry(IF Truthy(DictGet(entry, "name")) THEN entry.name ELSE "Peer",
                        entry.address,
                        IF "description" \in DOMAIN entry THEN entry.description
                        ELSE "") >>

\* a variant of ExtraEntries that prepends each entry instead of appending it
RECURSIVE ExtraEntriesReversed(_)
ExtraEntriesReversed(extra) ==
    IF extra = << >> THEN << >>
    ELSE ExtraEntriesReversed(Tail(extra)) \o ExtraEntry(Head(extra))

\* the loop of _RequestProcessor.__init__ over extra_servers
RECURSIVE ExtraEntries(_)
ExtraEntries(extra) ==
    IF extra = << >> THEN << >>
    ELSE ExtraEntry(Head(extra)) \o ExtraEntries(Tail(extra))

\* f"{HOST}:{PORT}"
LocalHelperAddress == "127.0.0.1:65432"

\* _RequestProcessor.__init__: self._servers
ProcessorServers(domain_server, extra) ==
    << ServerEntry("Domain server", domain_server, "Primary DNS authority"),
       ServerEntry("Local helper", LocalHelperAddress, "Bundled lookup helper") >>
    \o ExtraEntries(extra)

\* _RequestProcessor._error_payload
error_payload(domain_server, message, request) ==
    [status |-> "error", message |-> message, domain_server |-> domain_server,
     error_page |-> build_error_page(message, request)]

\* a variant of lookup_response that reports the request text as the hostname
lookup_response_raw_hostname(domain_server, request, d) ==
    IF ~d.result.ok
    THEN [response |-> error_payload(domain_server, d.result.error, request),
          memo |-> d.memo]
    ELSE [response |-> [status |-> "ok",
                        hostname |-> request,
                        zone |-> d.result.parts.zone,
                        node |-> d.result.parts.node,
                        name |-> d.result.parts.name,
                        domain_server |-> domain_server],
          memo |-> d.memo]

\* lines 88-100 of handle, given what describe returned: [response, memo]
lookup_response(domain_server, request, d) ==
    IF ~d.result.ok
    THEN [response |-> error_payload(domain_server, d.result.error, request),
          memo |-> d.memo]
    ELSE [response |-> [status |-> "ok",
                        hostname |-> d.result.parts.hostname,
                        zone |-> d.result.parts.zone,
                        node |-> d.result.parts.node,
                        name |-> d.result.parts.name,
                        domain_server |-> domain_server],
          memo |-> d.memo]

\* a variant of handle_request that compares the commands without upper()
handle_request_exact_case(domain_server, servers, memo, request) ==
    IF request = << >>
    THEN [response |-> error_payload(domain_server, MsgNoDomain, request),
          memo |-> memo]
    ELSE IF request = PING
    THEN [response |-> [status |-> "ok", message |-> MsgPong,
                        domain_server |-> domain_server],
          memo |-> memo]
    ELSE IF request = SERVERS
    THEN [response |-> [status |-> "ok", domain_server |-> domain_server,
                        servers |-> servers],
          memo |-> memo]
    ELSE lookup_response(domain_server, request, describe(memo, request))

\* lines 75-100 of handle, on the stripped request: [response, memo]
handle_request(domain_server, servers, memo, request) ==
    IF request = << >>
    THEN [response |-> error_payload(domain_server, MsgNoDomain, request),
          memo |-> memo]
    ELSE IF Upper(request) = PING
    THEN [response |-> [status |-> "ok", message |-> MsgPong,
                        domain_server |-> domain_server],
          memo |-> memo]
    ELSE IF Upper(request) = SERVERS
    THEN [response |-> [status |-> "ok", domain_server |-> domain_server,
                        servers |-> servers],
          memo |-> memo]
    ELSE lookup_response(domain_server, request, describe(memo, request))

\* a variant of handle that does not strip the request
handle_unstripped(domain_server, servers, memo, raw) ==
    handle_request(domain_server, servers, memo, raw)

\* _RequestProcessor.handle on a decoded request: [response, memo]
handle(domain_server, servers, memo, raw) ==
    handle_request(domain_server, servers, memo, Strip(raw))

\* bytes.decode("utf-8"): [ok, text].  One-byte and two-byte sequences are
\* decoded; any other byte (a stray continuation byte, 0xC0, 0xC1, a lead byte
\* without its continuation, 0xF8..0xFF) is a UnicodeDecodeError.  Inputs hold
\* no three- or four-byte sequences.
RECURSIVE Utf8Chars(_)
Utf8Chars(bytes) ==
    IF bytes = << >> THEN << >>
    ELSE IF bytes[1] < 128 THEN <<bytes[1]>> \o Utf8Chars(Tail(bytes))
    ELSE IF bytes[1] \in 194..223 /\ Len(bytes) >= 2 /\ bytes[2] \in 128..191
    THEN <<(bytes[1] - 192) * 64 + (bytes[2] - 128)>> \o Utf8Chars(Tail(Tail(bytes)))
    ELSE <<-1>>

Utf8Result(chars) ==
    IF \E i \in 1..Len(chars) : chars[i] < 0 THEN [ok |-> FALSE, text |-> << >>]
    ELSE [ok |-> TRUE, text |-> chars]

Utf8Decode(bytes) == Utf8Result(Utf8Chars(bytes))

\* json.dumps(response) + "\n": one JSON document and the newline
JsonLine(response) == <<response, NL>>

\* lines 140-150 of serve, given the decoded request: [payload, memo]
serve_decoded(domain_server, servers, memo, decoded, h) ==
    IF ~decoded.ok
    THEN [payload |-> JsonLine([status |-> "error", message |-> MsgNotUtf8]),
          memo |-> memo]
    ELSE [payload |-> JsonLine(h.response), memo |-> h.memo]

\* lines 140-150 of serve: decode the request, build the response, and
\* serialise it: [payload, memo]
ServeResponse(domain_server, servers, memo, data) ==
    serve_decoded(domain_server, servers, memo, Utf8Decode(data),
                  handle(domain_server, servers, memo, Utf8Decode(data).text))

\* socket.recv(bufsize): at most bufsize of the bytes that have arrived
RecvBufSize == 1024

(***************************************************************************)
(* zweb_p2p.py: the cache manager                                          *)
(***************************************************************************)

DEFAULT_PUBLIC_IP == "1.1.1.1"

DEFAULT_PORT == 6881

WILDCARD == "0.0.0.0"

\* the default cache_dir and data_dir, as text
CacheDir == <<99, 97, 99, 104, 101>>

DataDir == <<100, 97, 116, 97>>

\* "site.html"
SiteHtml == <<115, 105, 116, 101, 46, 104, 116, 109, 108>>

\* a missing file
NoFile == [kind |-> "missing"]

Directory == [kind |-> "dir"]

RegularFile(content) == [kind |-> "file", content |-> content]

\* Path.__truediv__ with one component that holds no separator
PathJoin(root, seg) ==
    IF seg = << >> \/ seg = <<DOT>> THEN root ELSE root \o <<SLASH>> \o seg

\* path.mkdir(parents=True, exist_ok=True) below an existing root
ensure_directory(files, path) ==
    IF path \in DOMAIN files THEN files ELSE (path :> Directory) @@ files

\* path.write_bytes(content)
write_bytes(files, path, content) == (path :> RegularFile(content)) @@ files

safe_alias(alias) == OrDefault(ReplaceChar(alias, SLASH, DASH), UNKNOWN)

cache_path_for(alias) == PathJoin(CacheDir, safe_alias(alias))

data_path_for(alias) == PathJoin(DataDir, safe_alias(alias))

CachedSite(alias, source, hostname, cache_path, data_path) ==
    [alias |-> alias, source |-> source, hostname |-> hostname,
     cache_path |-> cache_path, data_path |-> data_path]

\* CachedSite.to_dict: the paths as text
to_dict(site) ==
    [alias |-> site.alias, source |-> site.source, hostname |-> site.hostname,
     cache_path |-> PathJoin(site.cache_path, << >>),
     data_path |-> PathJoin(site.data_path, << >>)]

\* the list _write_metadata serialises
MetadataOf(sites) == [i \in 1..Len(sites) |-> to_dict(sites[i])]

\* all([alias, source, hostname, cache_path, data_path]) of _load_metadata
EntryComplete(entry) ==
    /\ entry.alias # << >> /\ entry.source # << >> /\ entry.hostname # << >>
    /\ entry.cache_path # << >> /\ entry.data_path # << >>

\* the loop of _load_metadata over the entries of the file
RECURSIVE LoadEntries(_)
LoadEntries(data) ==
    IF data = << >> THEN << >>
    ELSE IF ~EntryComplete(Head(data)) THEN LoadEntries(Tail(data))
    ELSE << CachedSite(Head(data).alias, Head(data).source, Head(data).hostname,
                       PathJoin(Head(data).cache_path, << >>),
                       PathJoin(Head(data).data_path, << >>)) >>
         \o LoadEntries(Tail(data))

\* _load_metadata on the content of sites.json
load_metadata(file) == IF file = NoFile THEN << >> ELSE LoadEntries(file.content)

\* bool(value) of a value json.loads returned
JsonTruthy(j) ==
    CASE j.t = "null" -> FALSE
      [] j.t = "bool" -> j.b
      [] j.t = "number" -> j.n # 0
      [] j.t = "object" -> DOMAIN j.o # {}
      [] j.t = "string" -> j.s # << >>
      [] OTHER -> j.a # << >>

\* entry.get(key) on a dict json.loads returned
JsonGet(entry, key) == IF key \in DOMAIN entry.o THEN entry.o[key] ELSE [t |-> "null"]

\* str(n) of a natural number
RECURSIVE Decimal(_)
Decimal(n) == IF n < 10 THEN <<48 + n>> ELSE Decimal(n \div 10) \o <<48 + (n % 10)>>

\* str(value) of a string or a natural number
PyStr(j) == IF j.t = "string" THEN j.s ELSE Decimal(j.n)

\* what `for entry in data` goes through: the items of an array, the keys of
\* an object, the characters of a string; TypeError for the other values
JsonIter(j) ==
    CASE j.t = "array" -> [ok |-> TRUE, sites |-> j.a]
      [] j.t = "string" ->
            [ok |-> TRUE, sites |-> [i \in 1..Len(j.s) |-> [t |-> "string", s |-> <<j.s[i]>>]]]
      [] j.t = "object" ->
            [ok |-> TRUE,
             sites |-> [i \in 1..Cardinality(DOMAIN j.o) |-> [t |-> "string", s |-> << >>]]]
      [] OTHER -> [ok |-> FALSE, error |-> "TypeError"]

\* lines 139-157 of _load_metadata on what the file holds: the sites, or the
\* exception that leaves the loop
RECURSIVE LoadJsonEntries(_, _)
LoadJsonEntries(items, sites) ==
    IF items = << >> THEN [ok |-> TRUE, sites |-> sites]
    ELSE IF Head(items).t # "object" THEN [ok |-> FALSE, error |-> "AttributeError"]
    ELSE IF \E k \in {"alias", "source", "hostname", "cache_path", "data_path"} :
               ~JsonTruthy(JsonGet(Head(items), k))
    THEN LoadJsonEntries(Tail(items), sites)
    ELSE IF \E k \in {"cache_path", "data_path"} : JsonGet(Head(items), k).t # "string"
    THEN [ok |-> FALSE, error |-> "TypeError"]
    ELSE LoadJsonEntries(
            Tail(items),
            Append(sites,
                   CachedSite(PyStr(JsonGet(Head(items), "alias")),
                              PyStr(JsonGet(Head(items), "source")),
                              PyStr(JsonGet(Head(items), "hostname")),
                              PathJoin(JsonGet(Head(items), "cache_path").s, << >>),
                              PathJoin(JsonGet(Head(items), "data_path").s, << >>))))

\* _load_metadata on sites.json, whatever it holds: a file the manager wrote
\* (kind "file"), a file that cannot be read (OSError), text that is no JSON
\* (JSONDecodeError), bytes that are no UTF-8 (UnicodeDecodeError), or some
\* other JSON value
load_outcome(file) ==
    CASE file.kind = "file" -> [ok |-> TRUE, sites |-> load_metadata(file)]
      [] file.kind = "bytes" -> [ok |-> FALSE, error |-> "UnicodeDecodeError"]
      [] file.kind = "json" ->
            IF JsonIter(file.value).ok
            THEN LoadJsonEntries(JsonIter(file.value).sites, << >>)
            ELSE JsonIter(file.value)
      [] OTHER -> [ok |-> TRUE, sites |-> << >>]

\* _write_metadata: the file after it, `written` telling whether write_text
\* succeeded (an OSError is swallowed and leaves the file as it was)
write_metadata(file, sites, written) ==
    IF written THEN RegularFile(MetadataOf(sites)) ELSE file

\* the first two lines of install_site
normalise_source(source) ==
    IF Contains(Strip(source), SchemeSep) THEN Strip(source)
    ELSE HttpPrefix \o Strip(source)

\* the list _register_site leaves in cached_sites
register_site(sites, site) ==
    Append(SelectSeq(sites, LAMBDA existing : existing.alias # site.alias), site)

\* [site.alias for site in self.cached_sites]
AliasesOf(sites) == {sites[i].alias : i \in 1..Len(sites)}

\* socket.inet_aton accepts the text
inet_aton_ok(ip) == ip \in {"1.1.1.1", "10.0.0.9", "0.0.0.0"}

NoServer == [running |-> FALSE]

ThreadedTCPServer(host, port) == [running |-> TRUE, host |-> host, port |-> port]

\* the entries self.cache_dir.glob("*") yields
CacheEntries(files) ==
    {p \in DOMAIN files :
        /\ Len(p) > Len(CacheDir) + 1
        /\ Slice(p, 0, Len(CacheDir) + 1) = CacheDir \o <<SLASH>>
        /\ ~Contains(Slice(p, Len(CacheDir) + 1, Len(p)), <<SLASH>>)}

\* p is the entry or lies below it
Within(p, entry) ==
    \/ p = entry
    \/ /\ Len(p) > Len(entry)
       /\ Slice(p, 0, Len(entry) + 1) = entry \o <<SLASH>>

\* the files left when the entries in `gone` were unlinked or removed as trees
RemoveEntries(files, gone) ==
    [p \in {q \in DOMAIN files : \A e \in gone : ~Within(q, e)} |-> files[p]]

\* the files without the paths in `lost`
RemovePaths(files, lost) == [p \in DOMAIN files \ lost |-> files[p]]

\* what lies below the entries: what a failing rmtree may have removed
Below(files, entries) ==
    {p \in DOMAIN files : \E e \in entries : Within(p, e) /\ p # e}

NoCall == [op |-> "none", alias |-> << >>, source |-> << >>, hostname |-> << >>,
           result |-> "ok"]

Call(op, alias, source, hostname, result) ==
    [op |-> op, alias |-> alias, source |-> source, hostname |-> hostname,
     result |-> result]

(***************************************************************************)
(* The resolution server as a state machine: serve() and its clients       *)
(***************************************************************************)

\* the number of client connections made during one run
MaxConns == 2

Conns == 1..MaxConns

\* the byte strings a client sends:
\*   PING\n
\*   \n
\*   c.a.b\n
\*   A.b (no newline)
\*   .\n
\*   0xFF \n
\*   a\nb
Requests ==
    { <<80, 73, 78, 71, 10>>,
      <<10>>,
      <<99, 46, 97, 46, 98, 10>>,
      <<65, 46, 98>>,
      <<46, 10>>,
      <<255, 10>>,
      <<97, 10, 98>> }

\* the keyword arguments of serve(): the defaults, and an operator
\* configuration with extra servers (as main() builds them, and as a direct
\* caller may pass them: an empty name, a description, an empty address, a
\* missing name)
ServeArgs ==
    { [host |-> HOST, port |-> PORT, domain_server |-> DEFAULT_DOMAIN_SERVER,
       extra_servers |-> << >>],
      [host |-> "0.0.0.0", port |-> 8053, domain_server |-> "9.9.9.9",
       extra_servers |-> << [name |-> "", address |-> "10.0.0.4", description |-> "lab"],
                            [name |-> "down", address |-> ""],
                            [name |-> "mirror", address |-> "10.0.0.2"],
                            [address |-> "10.0.0.3"] >>] }

VARIABLES
    args,       \* the arguments serve() was called with
    pc,         \* where serve() is: start, bind, listen, ready, accept, recv,
                \* respond, crashed
    servers,    \* processor._servers
    sock,       \* the listening socket: none, bound, listening, closed
    stdout,     \* the lines printed so far
    backlog,    \* established connections not yet accepted, oldest first
    cur,        \* the connection serve() holds in `conn`, 0 when none
    conn,       \* per connection: the client's and the server's view of it
    memo        \* the lru_cache of describe

serverVars == <<args, pc, servers, sock, stdout, backlog, cur, conn, memo>>

\* the state of the request processor when it is driven directly, one request
\* after the other (lines 140-150 of serve without the sockets)
VARIABLES
    calls,      \* the number of requests handled
    hdata,      \* the bytes of the last request
    hpayload,   \* the payload built for it
    hmemo       \* the memo before it was handled

handleVars == <<calls, hdata, hpayload, hmemo>>

HandleIdle == calls = 0 /\ hdata = << >> /\ hpayload = << >> /\ hmemo = << >>

\* the state of one P2PManager and of the directories it works in
VARIABLES
    cached_sites,   \* P2PManager.cached_sites
    public_ip,      \* P2PManager.public_ip
    p2p_server,     \* P2PManager._server, with the address it is bound to
    sites_json,     \* the content of data/sites.json, NoFile while it is missing
    fs,             \* the files and directories below cache/ and data/
    last,           \* the last call on the manager and how it ended
    ops             \* the number of calls made on the manager

p2pVars == <<cached_sites, public_ip, p2p_server, sites_json, fs, last, ops>>

\* one peer of the announce server
VARIABLES
    peer_raw,       \* what the handler's recv(1024) returned for the last peer
    peer_reply,     \* the payload the handler sent to that peer, if any
    peers,          \* the number of peer connections handled
    peer_unread     \* what the last peer sent on its connection after the
                    \* handler had returned: bytes no recv will return

peerVars == <<peer_raw, peer_reply, peers, peer_unread>>

PeerIdle ==
    peer_raw = << >> /\ peer_reply = << >> /\ peers = 0 /\ peer_unread = << >>

\* a caller of the functions of module dns
VARIABLES
    din,            \* the domain and the suffix this caller works with
    dlast,          \* its last call, with what the call returned or raised
    dcalls          \* the number of calls it has made

dnsVars == <<din, dlast, dcalls>>

NoDnsCall == [op |-> "none", raw |-> << >>, suffix |-> << >>,
              out |-> [ok |-> TRUE, value |-> << >>]]

DnsCall(op, raw, suffix, out) == [op |-> op, raw |-> raw, suffix |-> suffix, out |-> out]

DnsIdle == din = [raw |-> << >>, suffix |-> ZWB] /\ dlast = NoDnsCall /\ dcalls = 0

\* the threads of the browser that call the manager at the same time
MaxThreads == 2

Threads == 1..MaxThreads

VARIABLES
    threads         \* for each thread: where its call is (pc), the call (op,
                    \* alias), the CachedSite it registers (site), the list
                    \* line 220 has built (kept), the list line 161 has built
                    \* (data) and cached_sites as the call found it (found)

threadVars == <<threads>>

NoSite == [alias |-> << >>, source |-> << >>, hostname |-> << >>,
           cache_path |-> << >>, data_path |-> << >>]

IdleThread ==
    [pc |-> "idle", op |-> "none", alias |-> << >>, site |-> NoSite,
     kept |-> << >>, data |-> << >>, found |-> << >>]

ThreadsIdle == threads = [t \in Threads |-> IdleThread]

otherVars == <<handleVars, p2pVars, peerVars, dnsVars, threadVars>>

\* the manager after __post_init__ in a directory that holds nothing
P2PInit ==
    /\ cached_sites = << >>
    /\ public_ip = DEFAULT_PUBLIC_IP
    /\ p2p_server = NoServer
    /\ sites_json = NoFile
    /\ fs = (CacheDir :> Directory) @@ (DataDir :> Directory)
    /\ last = NoCall
    /\ ops = 0

\* a connection nobody has opened yet
NewConn ==
    [st |-> "new",      \* new, queued, accepted, closed (after the response),
                        \* dropped (closed when serve() ended with an error)
     plan |-> << >>,    \* bytes the client still has to send
     wire |-> << >>,    \* bytes sent by the client, not yet received
     fin |-> FALSE,     \* the client has closed its side (the server reads EOF)
     rst |-> FALSE,     \* the client has reset the connection
     data |-> << >>,    \* serve()'s bytearray `data`
     resp |-> << >>]    \* what the server has sent on the connection

ServerInit ==
    /\ args \in ServeArgs
    /\ pc = "start"
    /\ servers = << >>
    /\ sock = "none"
    /\ stdout = << >>
    /\ backlog = << >>
    /\ cur = 0
    /\ conn = [c \in Conns |-> NewConn]
    /\ memo = << >>

\* line 120: processor = _RequestProcessor(domain_server, extra_servers or [])
CreateProcessor ==
    /\ pc = "start"
    /\ servers' = ProcessorServers(args.domain_server, args.extra_servers)
    /\ pc' = "bind"
    /\ UNCHANGED <<args, sock, stdout, backlog, cur, conn, memo>>
    /\ UNCHANGED otherVars

\* lines 122-124: the socket is created and bound
Bind ==
    /\ pc = "bind"
    /\ sock' = "bound"
    /\ pc' = "listen"
    /\ UNCHANGED <<args, servers, stdout, backlog, cur, conn, memo>>
    /\ UNCHANGED otherVars

\* line 124: bind raises OSError (the address is in use); serve() ends
BindFail ==
    /\ pc = "bind"
    /\ sock' = "closed"
    /\ pc' = "crashed"
    /\ UNCHANGED <<args, servers, stdout, backlog, cur, conn, memo>>
    /\ UNCHANGED otherVars

\* line 125: sock.listen()
Listen ==
    /\ pc = "listen"
    /\ sock' = "listening"
    /\ pc' = "ready"
    /\ UNCHANGED <<args, servers, stdout, backlog, cur, conn, memo>>
    /\ UNCHANGED otherVars

\* f"READY {host}:{port}"
ReadyLine(host, port) == <<"READY ", host, ":", port>>

\* line 126: print(f"READY {host}:{port}", flush=True)
PrintReady ==
    /\ pc = "ready"
    /\ stdout' = Append(stdout, ReadyLine(args.host, args.port))
    /\ pc' = "accept"
    /\ UNCHANGED <<args, servers, sock, backlog, cur, conn, memo>>
    /\ UNCHANGED otherVars

\* a variant of Accept with the READY line printed inside the accept loop
AcceptPrintsReady ==
    /\ pc = "accept"
    /\ backlog # << >>
    /\ cur' = Head(backlog)
    /\ backlog' = Tail(backlog)
    /\ conn' = [conn EXCEPT ![Head(backlog)].st = "accepted"]
    /\ stdout' = Append(stdout, ReadyLine(args.host, args.port))
    /\ pc' = "recv"
    /\ UNCHANGED <<args, servers, sock, memo>>
    /\ UNCHANGED otherVars

\* line 129: conn, _addr = sock.accept(); line 131: data = bytearray()
Accept ==
    /\ pc = "accept"
    /\ backlog # << >>
    /\ cur' = Head(backlog)
    /\ backlog' = Tail(backlog)
    /\ conn' = [conn EXCEPT ![Head(backlog)].st = "accepted"]
    /\ pc' = "recv"
    /\ UNCHANGED <<args, servers, sock, stdout, memo>>
    /\ UNCHANGED otherVars

\* lines 133-138: one conn.recv(1024) that returns bytes; the loop ends when
\* the bytes received so far end with "\n"
Recv ==
    /\ pc = "recv"
    /\ conn[cur].wire # << >>
    /\ LET w == conn[cur].wire
           n == IF Len(w) > RecvBufSize THEN RecvBufSize ELSE Len(w)
           d == conn[cur].data \o SubSeq(w, 1, n)
       IN /\ conn' = [conn EXCEPT ![cur].wire = SubSeq(w, n + 1, Len(w)),
                                  ![cur].data = d]
          /\ pc' = IF EndsWith(d, <<NL>>) THEN "respond" ELSE "recv"
    /\ UNCHANGED <<args, servers, sock, stdout, backlog, cur, memo>>
    /\ UNCHANGED otherVars

\* lines 133-135: conn.recv(1024) returns b"" (the client closed): break
RecvEOF ==
    /\ pc = "recv"
    /\ conn[cur].wire = << >>
    /\ conn[cur].fin
    /\ ~conn[cur].rst
    /\ pc' = "respond"
    /\ UNCHANGED <<args, servers, sock, stdout, backlog, cur, conn, memo>>
    /\ UNCHANGED otherVars

\* an OSError leaves serve(): `with conn` and `with sock` close both sockets,
\* and the connections still in the backlog are dropped with the listener
Crash ==
    /\ conn' = [c \in Conns |->
                  IF c = cur \/ conn[c].st = "queued"
                  THEN [conn[c] EXCEPT !.st = "dropped", !.wire = << >>, !.plan = << >>]
                  ELSE conn[c]]
    /\ backlog' = << >>
    /\ cur' = 0
    /\ sock' = "closed"
    /\ pc' = "crashed"

\* line 133: conn.recv(1024) raises ConnectionResetError
RecvReset ==
    /\ pc = "recv"
    /\ conn[cur].rst
    /\ Crash
    /\ UNCHANGED <<args, servers, stdout, memo>>
    /\ UNCHANGED otherVars

\* a variant of Respond that keeps the connection and reads from it again
RespondKeepOpen ==
    /\ pc = "respond"
    /\ ~conn[cur].rst
    /\ LET r == ServeResponse(args.domain_server, servers, memo, conn[cur].data)
       IN /\ conn' = [conn EXCEPT ![cur].resp = @ \o r.payload, ![cur].data = << >>]
          /\ memo' = r.memo
    /\ pc' = "recv"
    /\ UNCHANGED <<args, servers, sock, stdout, backlog, cur>>
    /\ UNCHANGED otherVars

\* a variant of Respond without the except clause of line 142: a request that
\* is not valid UTF-8 ends serve()
RespondDecodeUncaught ==
    /\ pc = "respond"
    /\ ~conn[cur].rst
    /\ IF Utf8Decode(conn[cur].data).ok
       THEN /\ LET r == ServeResponse(args.domain_server, servers, memo, conn[cur].data)
               IN /\ conn' = [conn EXCEPT ![cur].resp = @ \o r.payload,
                                          ![cur].st = "closed",
                                          ![cur].wire = << >>,
                                          ![cur].plan = << >>]
                  /\ memo' = r.memo
            /\ cur' = 0
            /\ pc' = "accept"
            /\ UNCHANGED <<backlog, sock>>
       ELSE Crash /\ UNCHANGED memo
    /\ UNCHANGED <<args, servers, stdout>>
    /\ UNCHANGED otherVars

\* lines 140-151 and the end of `with conn`: decode, handle, sendall, close
\* (bytes that arrived and were not read are discarded with the socket, and the
\* client can send no more)
Respond ==
    /\ pc = "respond"
    /\ ~conn[cur].rst
    /\ LET r == ServeResponse(args.domain_server, servers, memo, conn[cur].data)
       IN /\ conn' = [conn EXCEPT ![cur].resp = @ \o r.payload,
                                  ![cur].st = "closed"]
          /\ memo' = r.memo
    /\ cur' = 0
    /\ pc' = "accept"
    /\ UNCHANGED <<args, servers, sock, stdout, backlog>>
    /\ UNCHANGED otherVars

\* lines 140-151: the response is built, and conn.sendall raises (the client
\* has reset the connection)
RespondReset ==
    /\ pc = "respond"
    /\ conn[cur].rst
    /\ memo' = ServeResponse(args.domain_server, servers, memo, conn[cur].data).memo
    /\ Crash
    /\ UNCHANGED <<args, servers, stdout>>
    /\ UNCHANGED otherVars

\* a client connects (the kernel completes the handshake once the socket
\* listens) and decides what it will send; connections are numbered in the
\* order they are made
ClientConnect(c, r) ==
    /\ sock = "listening"
    /\ conn[c].st = "new"
    /\ \A b \in Conns : b < c => conn[b].st # "new"
    /\ conn' = [conn EXCEPT ![c].st = "queued", ![c].plan = r]
    /\ backlog' = Append(backlog, c)
    /\ UNCHANGED <<args, pc, servers, sock, stdout, cur, memo>>
    /\ UNCHANGED otherVars

ClientOpen(c) == conn[c].st \in {"queued", "accepted"} /\ ~conn[c].fin /\ ~conn[c].rst

\* the sizes of the next write of a client that has `plan` left to send: all
\* of it, or all but its last byte
WriteSizes(plan) == {k \in {Len(plan) - 1, Len(plan)} : k >= 1}

\* the client writes the next k bytes of its request
ClientSend(c, k) ==
    /\ ClientOpen(c)
    /\ k \in WriteSizes(conn[c].plan)
    /\ conn' = [conn EXCEPT ![c].wire = @ \o SubSeq(conn[c].plan, 1, k),
                            ![c].plan = SubSeq(@, k + 1, Len(@))]
    /\ UNCHANGED <<args, pc, servers, sock, stdout, backlog, cur, memo>>
    /\ UNCHANGED otherVars

\* the client, having sent its request, closes its sending side
ClientClose(c) ==
    /\ ClientOpen(c)
    /\ conn[c].plan = << >>
    /\ conn' = [conn EXCEPT ![c].fin = TRUE]
    /\ UNCHANGED <<args, pc, servers, sock, stdout, backlog, cur, memo>>
    /\ UNCHANGED otherVars

\* the client resets the connection (an abortive close): what it had sent and
\* the server had not read is lost, and it sends no more
ClientReset(c) ==
    /\ ClientOpen(c)
    /\ conn' = [conn EXCEPT ![c].rst = TRUE, ![c].wire = << >>, ![c].plan = << >>]
    /\ UNCHANGED <<args, pc, servers, sock, stdout, backlog, cur, memo>>
    /\ UNCHANGED otherVars

ServerNext ==
    \/ CreateProcessor
    \/ Bind
    \/ BindFail
    \/ Listen
    \/ PrintReady
    \/ Accept
    \/ Recv
    \/ RecvEOF
    \/ RecvReset
    \/ Respond
    \/ RespondReset
    \/ \E c \in Conns, r \in Requests : ClientConnect(c, r)
    \/ \E c \in Conns : \E k \in WriteSizes(conn[c].plan) : ClientSend(c, k)
    \/ \E c \in Conns : ClientClose(c)
    \/ \E c \in Conns : ClientReset(c)

(***************************************************************************)
(* The request processor driven directly                                   *)
(***************************************************************************)

\* the number of requests handled in one run
MaxCalls == 2

\* the requests handled:
\*   PING\n
\*   ping\n
\*    PiNg \t\n
\*   PING (no newline)
\*   pings\n
\*   SERVERS\n
\*   servers\n
\*    Servers \n
\*   server\n
\*   \n
\*   (no bytes)
\*    \t\r\n
\*   c.a.b\n
\*   A.b (no newline)
\*   localhost\n
\*   .\n
\*   x@ .\n
\*   http://\n
\*   0xFF \n
\*   a.b 0xC3 (a truncated two-byte sequence)
\*   0xC3 0xA9 .b\n (e acute)
\*   a\nb
\*   hello.github.io\n
\*   Hello.GitHub.io/hi\n
\*   -.github.io\n
HandleInputs ==
    { <<80, 73, 78, 71, 10>>,
      <<112, 105, 110, 103, 10>>,
      <<32, 80, 105, 78, 103, 32, 9, 10>>,
      <<80, 73, 78, 71>>,
      <<112, 105, 110, 103, 115, 10>>,
      <<83, 69, 82, 86, 69, 82, 83, 10>>,
      <<115, 101, 114, 118, 101, 114, 115, 10>>,
      <<32, 83, 101, 114, 118, 101, 114, 115, 32, 10>>,
      <<115, 101, 114, 118, 101, 114, 10>>,
      <<10>>,
      <<>>,
      <<32, 9, 13, 10>>,
      <<99, 46, 97, 46, 98, 10>>,
      <<65, 46, 98>>,
      <<108, 111, 99, 97, 108, 104, 111, 115, 116, 10>>,
      <<46, 10>>,
      <<120, 64, 32, 46, 10>>,
      <<104, 116, 116, 112, 58, 47, 47, 10>>,
      <<255, 10>>,
      <<97, 46, 98, 195>>,
      <<195, 169, 46, 98, 10>>,
      <<97, 10, 98>>,
      <<104, 101, 108, 108, 111, 46, 103, 105, 116, 104, 117, 98, 46, 105, 111, 10>>,
      <<72, 101, 108, 108, 111, 46, 71, 105, 116, 72, 117, 98, 46, 105, 111, 47, 104, 105, 10>>,
      <<45, 46, 103, 105, 116, 104, 117, 98, 46, 105, 111, 10>> }

\* the state after processor = _RequestProcessor(domain_server, extra_servers)
HandleInit ==
    /\ args \in ServeArgs
    /\ servers = ProcessorServers(args.domain_server, args.extra_servers)
    /\ memo = << >>
    /\ HandleIdle
    /\ pc = "start" /\ sock = "none" /\ stdout = << >> /\ backlog = << >>
    /\ cur = 0 /\ conn = [c \in Conns |-> NewConn]
    /\ P2PInit
    /\ PeerIdle
    /\ ThreadsIdle
    /\ DnsIdle

\* lines 140-150 of serve on the bytes of one request
HandleData(d) ==
    /\ calls < MaxCalls
    /\ LET r == ServeResponse(args.domain_server, servers, memo, d)
       IN /\ hpayload' = r.payload
          /\ memo' = r.memo
    /\ hdata' = d
    /\ hmemo' = memo
    /\ calls' = calls + 1
    /\ UNCHANGED <<args, pc, servers, sock, stdout, backlog, cur, conn>>
    /\ UNCHANGED <<p2pVars, peerVars, dnsVars, threadVars>>

HandleNext == \E d \in HandleInputs : HandleData(d)

vars == <<serverVars, handleVars, p2pVars, peerVars, dnsVars, threadVars>>

Init == ServerInit /\ HandleIdle /\ P2PInit /\ PeerIdle /\ DnsIdle /\ ThreadsIdle

Next == ServerNext

Spec == Init /\ [][Next]_vars

SpecHandle == HandleInit /\ [][HandleNext]_vars

(***************************************************************************)
(* The cache manager as a state machine: the calls on one P2PManager       *)
(***************************************************************************)

\* the aliases sites are installed under: "a/b" and ""
Aliases == { <<97, 47, 98>>, << >> }

\* the calls made on one manager during one run
MaxOps == 4

\* the sources and hostnames given to install_site: "x.y" with "h", and
\* " s://z" with "i"
InstallArgs ==
    { [source |-> <<120, 46, 121>>, hostname |-> <<104>>],
      [source |-> <<32, 115, 58, 47, 47, 122>>, hostname |-> <<105>>] }

\* the bodies a download returns
Bodies == { <<60>> }

\* what urlopen(...).read() does: a body, or URLError
FetchResults == {[ok |-> FALSE]} \cup {[ok |-> TRUE, content |-> b] : b \in Bodies}

\* how far the two write_bytes calls get before an OSError
StoreResults == {"none", "first", "both"}

\* the addresses given to start_server: the default, an address that is not
\* one of this machine, and text that is no address
PublicIps == {"1.1.1.1", "10.0.0.9", "peer.example"}

\* a variant of install_site that registers the site before it downloads it
InstallSiteRegistersFirst(source, alias, hostname, fetched, stored, written) ==
    /\ fs' = LET made == ensure_directory(ensure_directory(fs, cache_path_for(alias)),
                                         data_path_for(alias))
             IN IF ~fetched.ok \/ stored = "none" THEN made
                ELSE IF stored = "first"
                THEN write_bytes(made, PathJoin(cache_path_for(alias), SiteHtml),
                                 fetched.content)
                ELSE write_bytes(write_bytes(made,
                                             PathJoin(cache_path_for(alias), SiteHtml),
                                             fetched.content),
                                 PathJoin(data_path_for(alias), SiteHtml),
                                 fetched.content)
    /\ cached_sites' =
          register_site(cached_sites,
                        CachedSite(alias, normalise_source(source), hostname,
                                   cache_path_for(alias), data_path_for(alias)))
    /\ sites_json' = write_metadata(sites_json, cached_sites', written)
    /\ last' = Call("install_site", alias, normalise_source(source), hostname,
                    IF ~fetched.ok THEN "DownloadError"
                    ELSE IF stored # "both" THEN "StorageError" ELSE "ok")
    /\ UNCHANGED <<public_ip, p2p_server>>
    /\ ops < MaxOps
    /\ ops' = ops + 1
    /\ UNCHANGED <<serverVars, handleVars, peerVars, dnsVars, threadVars>>

\* lines 178-217: install_site(source, alias, hostname), with what the
\* download, the two writes and the write of sites.json did
InstallSite(source, alias, hostname, fetched, stored, written) ==
    /\ fs' = LET made == ensure_directory(ensure_directory(fs, cache_path_for(alias)),
                                         data_path_for(alias))
             IN IF ~fetched.ok \/ stored = "none" THEN made
                ELSE IF stored = "first"
                THEN write_bytes(made, PathJoin(cache_path_for(alias), SiteHtml),
                                 fetched.content)
                ELSE write_bytes(write_bytes(made,
                                             PathJoin(cache_path_for(alias), SiteHtml),
                                             fetched.content),
                                 PathJoin(data_path_for(alias), SiteHtml),
                                 fetched.content)
    /\ IF fetched.ok /\ stored = "both"
       THEN /\ cached_sites' =
                  register_site(cached_sites,
                                CachedSite(alias, normalise_source(source), hostname,
                                           cache_path_for(alias), data_path_for(alias)))
            /\ sites_json' = write_metadata(sites_json, cached_sites', written)
            /\ last' = Call("install_site", alias, normalise_source(source),
                            hostname, "ok")
       ELSE /\ UNCHANGED <<cached_sites, sites_json>>
            /\ last' = Call("install_site", alias, normalise_source(source), hostname,
                            IF fetched.ok THEN "StorageError" ELSE "DownloadError")
    /\ UNCHANGED <<public_ip, p2p_server>>
    /\ ops < MaxOps
    /\ ops' = ops + 1
    /\ UNCHANGED <<serverVars, handleVars, peerVars, dnsVars, threadVars>>

\* a variant of mark_site_cached without the membership test of line 231
MarkSiteCachedAlwaysAppends(alias, written) ==
    /\ fs' = ensure_directory(ensure_directory(fs, cache_path_for(alias)),
                              data_path_for(alias))
    /\ cached_sites' =
          Append(cached_sites,
                 CachedSite(alias, << >>, << >>, cache_path_for(alias),
                            data_path_for(alias)))
    /\ sites_json' = write_metadata(sites_json, cached_sites', written)
    /\ last' = Call("mark_site_cached", alias, << >>, << >>, "ok")
    /\ UNCHANGED <<public_ip, p2p_server>>
    /\ ops < MaxOps
    /\ ops' = ops + 1
    /\ UNCHANGED <<serverVars, handleVars, peerVars, dnsVars, threadVars>>

\* lines 224-234: mark_site_cached(alias)
MarkSiteCached(alias, written) ==
    /\ fs' = ensure_directory(ensure_directory(fs, cache_path_for(alias)),
                              data_path_for(alias))
    /\ IF alias \notin AliasesOf(cached_sites)
       THEN /\ cached_sites' =
                  Append(cached_sites,
                         CachedSite(alias, << >>, << >>, cache_path_for(alias),
                                    data_path_for(alias)))
            /\ sites_json' = write_metadata(sites_json, cached_sites', written)
       ELSE UNCHANGED <<cached_sites, sites_json>>
    /\ last' = Call("mark_site_cached", alias, << >>, << >>, "ok")
    /\ UNCHANGED <<public_ip, p2p_server>>
    /\ ops < MaxOps
    /\ ops' = ops + 1
    /\ UNCHANGED <<serverVars, handleVars, peerVars, dnsVars, threadVars>>

\* a variant of cleanup_on_exit that empties the data directory as well
CleanupOnExitEverything(kept, lost) ==
    /\ p2p_server' = NoServer
    /\ fs' = [p \in {CacheDir, DataDir} \cup kept |-> fs[p]]
    /\ last' = Call("cleanup_on_exit", << >>, << >>, << >>, "ok")
    /\ UNCHANGED <<cached_sites, public_ip, sites_json>>
    /\ ops < MaxOps
    /\ ops' = ops + 1
    /\ UNCHANGED <<serverVars, handleVars, peerVars, dnsVars, threadVars>>

\* a variant of cleanup_on_exit with the try around the whole loop: the first
\* deletion that fails ends it
CleanupOnExitGivesUp(kept, lost) ==
    /\ p2p_server' = NoServer
    /\ fs' = IF kept = {} THEN RemoveEntries(fs, CacheEntries(fs))
             ELSE RemovePaths(fs, lost)
    /\ last' = Call("cleanup_on_exit", << >>, << >>, << >>, "ok")
    /\ UNCHANGED <<cached_sites, public_ip, sites_json>>
    /\ ops < MaxOps
    /\ ops' = ops + 1
    /\ UNCHANGED <<serverVars, handleVars, peerVars, dnsVars, threadVars>>

\* lines 236-247: cleanup_on_exit(), `kept` being the entries whose deletion
\* raised OSError and `lost` what rmtree had removed below them before it
\* raised; line 239 is stop_server()
CleanupOnExit(kept, lost) ==
    /\ p2p_server' = NoServer
    /\ fs' = RemovePaths(RemoveEntries(fs, CacheEntries(fs) \ kept), lost)
    /\ last' = Call("cleanup_on_exit", << >>, << >>, << >>, "ok")
    /\ UNCHANGED <<cached_sites, public_ip, sites_json>>
    /\ ops < MaxOps
    /\ ops' = ops + 1
    /\ UNCHANGED <<serverVars, handleVars, peerVars, dnsVars, threadVars>>

\* a variant of start_server without the guard of lines 255-256
StartServerUnguarded(ip, bound, fallback) ==
    /\ public_ip' = ip
    /\ IF bound \/ fallback
       THEN /\ p2p_server' =
                  ThreadedTCPServer(IF bound /\ inet_aton_ok(ip) THEN ip ELSE WILDCARD,
                                    DEFAULT_PORT)
            /\ last' = Call("start_server", << >>, << >>, << >>, "ok")
       ELSE /\ p2p_server' = NoServer
            /\ last' = Call("start_server", << >>, << >>, << >>, "RuntimeError")
    /\ UNCHANGED <<cached_sites, sites_json, fs>>
    /\ ops < MaxOps
    /\ ops' = ops + 1
    /\ UNCHANGED <<serverVars, handleVars, peerVars, dnsVars, threadVars>>

\* lines 252-276: start_server(public_ip), `bound` and `fallback` telling
\* whether the first and the second bind succeed
StartServer(ip, bound, fallback) ==
    /\ IF p2p_server # NoServer
       THEN /\ UNCHANGED <<public_ip, p2p_server>>
            /\ last' = Call("start_server", << >>, << >>, << >>, "RuntimeError")
       ELSE /\ public_ip' = ip
            /\ LET bind_host == IF inet_aton_ok(ip) THEN ip ELSE WILDCARD
               IN IF bound
                  THEN /\ p2p_server' = ThreadedTCPServer(bind_host, DEFAULT_PORT)
                       /\ last' = Call("start_server", << >>, << >>, << >>, "ok")
                  ELSE IF bind_host = WILDCARD
                  THEN /\ p2p_server' = NoServer
                       /\ last' = Call("start_server", << >>, << >>, << >>,
                                       "RuntimeError")
                  ELSE IF fallback
                  THEN /\ p2p_server' = ThreadedTCPServer(WILDCARD, DEFAULT_PORT)
                       /\ last' = Call("start_server", << >>, << >>, << >>, "ok")
                  ELSE /\ p2p_server' = NoServer
                       /\ last' = Call("start_server", << >>, << >>, << >>, "OSError")
    /\ UNCHANGED <<cached_sites, sites_json, fs>>
    /\ ops < MaxOps
    /\ ops' = ops + 1
    /\ UNCHANGED <<serverVars, handleVars, peerVars, dnsVars, threadVars>>

\* lines 278-284: stop_server()
StopServer ==
    /\ p2p_server' = NoServer
    /\ last' = Call("stop_server", << >>, << >>, << >>, "ok")
    /\ UNCHANGED <<cached_sites, public_ip, sites_json, fs>>
    /\ ops < MaxOps
    /\ ops' = ops + 1
    /\ UNCHANGED <<serverVars, handleVars, peerVars, dnsVars, threadVars>>

\* lines 119-124: a new process constructs its P2PManager over the same two
\* directories
Construct ==
    /\ cached_sites' = IF load_outcome(sites_json).ok
                       THEN load_outcome(sites_json).sites ELSE << >>
    /\ public_ip' = DEFAULT_PUBLIC_IP
    /\ p2p_server' = NoServer
    /\ fs' = ensure_directory(ensure_directory(fs, CacheDir), DataDir)
    /\ last' = Call("__post_init__", << >>, << >>, << >>,
                    IF load_outcome(sites_json).ok THEN "ok"
                    ELSE load_outcome(sites_json).error)
    /\ UNCHANGED sites_json
    /\ ops < MaxOps
    /\ ops' = ops + 1
    /\ UNCHANGED <<serverVars, handleVars, peerVars, dnsVars, threadVars>>

P2PNext ==
    \/ \E a \in InstallArgs, alias \in Aliases,
          fetched \in FetchResults, stored \in StoreResults, written \in BOOLEAN :
          InstallSite(a.source, alias, a.hostname, fetched, stored, written)
    \/ \E alias \in Aliases, written \in BOOLEAN : MarkSiteCached(alias, written)
    \/ \E kept \in SUBSET CacheEntries(fs) :
          \E lost \in SUBSET Below(fs, kept) : CleanupOnExit(kept, lost)
    \/ \E ip \in PublicIps, bound \in BOOLEAN, fallback \in BOOLEAN :
          StartServer(ip, bound, fallback)
    \/ StopServer
    \/ Construct

\* the manager alone, beside a resolution server that was never started
ManagerInit == Init /\ args.extra_servers = << >>

SpecP2P == ManagerInit /\ [][P2PNext]_vars

(***************************************************************************)
(* The announce server: _PeerRequestHandler beside the manager it reads    *)
(***************************************************************************)

\* bytes.decode("utf-8", "ignore"): a byte that starts no valid sequence is
\* dropped and decoding goes on with the next byte.  Inputs hold no three- or
\* four-byte sequences.
RECURSIVE Utf8Ignore(_)
Utf8Ignore(bytes) ==
    IF bytes = << >> THEN << >>
    ELSE IF bytes[1] < 128 THEN <<bytes[1]>> \o Utf8Ignore(Tail(bytes))
    ELSE IF bytes[1] \in 194..223 /\ Len(bytes) >= 2 /\ bytes[2] \in 128..191
    THEN <<(bytes[1] - 192) * 64 + (bytes[2] - 128)>> \o Utf8Ignore(Tail(Tail(bytes)))
    ELSE Utf8Ignore(Tail(bytes))

\* a variant of line 81 that compares the decoded payload as it came
peer_message_as_sent(raw) == Utf8Ignore(raw)

\* line 81: message = (raw or b"").decode("utf-8", "ignore").strip().upper()
peer_message(raw) == Upper(Strip(Utf8Ignore(raw)))

\* lines 82-89: the response to a message, from the manager's fields
peer_response(message, manager_public_ip, manager_cached_sites) ==
    IF message = PING
    THEN [status |-> "ok", message |-> MsgPong]
    ELSE [status |-> "ok", public_ip |-> manager_public_ip,
          sites |-> MetadataOf(manager_cached_sites)]

\* the number of peer connections made during one run
MaxPeers == 1

\* what a peer sends, as the bytes one recv(1024) returns:
\*   PING        ping\n        " Ping \r\n"       PINGS
\*   LIST\n      (nothing)     \n                 0xFF PING
\*   P ING
PeerPayloads ==
    { <<80, 73, 78, 71>>,
      <<112, 105, 110, 103, 10>>,
      <<32, 80, 105, 110, 103, 32, 13, 10>>,
      <<80, 73, 78, 71, 83>>,
      <<76, 73, 83, 84, 10>>,
      << >>,
      <<10>>,
      <<255, 80, 73, 78, 71>>,
      <<80, 32, 73, 78, 71>> }

\* lines 74-95: handle() for one connection of a peer, `sent` telling whether
\* sendall succeeded; the server accepts connections while it is running
PeerRequest(raw, sent) ==
    /\ p2p_server # NoServer
    /\ peers < MaxPeers
    /\ peers' = peers + 1
    /\ peer_raw' = raw
    /\ peer_reply' =
          IF sent
          THEN JsonLine(peer_response(peer_message(raw), public_ip, cached_sites))
          ELSE << >>
    /\ peer_unread' = << >>
    /\ UNCHANGED <<serverVars, handleVars, p2pVars, dnsVars, threadVars>>

\* lines 76-79: recv raised OSError and the handler returned
PeerRecvFails ==
    /\ p2p_server # NoServer
    /\ peers < MaxPeers
    /\ peers' = peers + 1
    /\ peer_raw' = << >>
    /\ peer_reply' = << >>
    /\ peer_unread' = << >>
    /\ UNCHANGED <<serverVars, handleVars, p2pVars, dnsVars, threadVars>>

\* what a peer sends after its first command was answered: PING, LIST\n
PeerFollowUps == { <<80, 73, 78, 71>>, <<76, 73, 83, 84, 10>> }

\* a peer that was answered keeps its connection open and sends another
\* command on it.  handle() has returned after its one recv and one sendall
\* (lines 76-95), and socketserver has shut the connection down: no handler
\* reads these bytes
PeerSendsMore(raw) ==
    /\ peers > 0
    /\ peer_reply # << >>
    /\ peer_unread = << >>
    /\ peer_unread' = raw
    /\ UNCHANGED <<peer_raw, peer_reply, peers>>
    /\ UNCHANGED <<serverVars, handleVars, p2pVars, dnsVars, threadVars>>

\* the calls that change what the handler reads (the SiteDirectory, public_ip,
\* the listener), and the peers; cleanup_on_exit is stop_server as far as a
\* peer can tell, and the handler reads neither the disk nor sites.json, so
\* the writes of the manager succeed here
PeerNext ==
    \/ \E a \in InstallArgs, alias \in Aliases, fetched \in FetchResults :
          InstallSite(a.source, alias, a.hostname, fetched, "both", TRUE)
    \/ \E alias \in Aliases : MarkSiteCached(alias, TRUE)
    \/ \E ip \in PublicIps, bound \in BOOLEAN, fallback \in BOOLEAN :
          StartServer(ip, bound, fallback)
    \/ StopServer
    \/ \E raw \in PeerPayloads, sent \in BOOLEAN : PeerRequest(raw, sent)
    \/ PeerRecvFails
    \/ \E raw \in PeerFollowUps : PeerSendsMore(raw)

SpecPeer == ManagerInit /\ [][PeerNext]_vars

\* aliases that differ by "/" against "-" only, and the empty alias beside
\* "unknown":  a/b   a-b   (empty)   unknown
StorageAliases == { <<97, 47, 98>>, <<97, 45, 98>>, << >>, UNKNOWN }

\* two downloads that differ:  <   >
StorageBodies == { <<60>>, <<62>> }

\* installs and marks over those aliases, every download and write succeeding
StorageNext ==
    \/ \E alias \in StorageAliases, body \in StorageBodies :
          InstallSite(<<120, 46, 121>>, alias, <<104>>,
                      [ok |-> TRUE, content |-> body], "both", TRUE)
    \/ \E alias \in StorageAliases : MarkSiteCached(alias, TRUE)

SpecStorage == ManagerInit /\ [][StorageNext]_vars

(***************************************************************************)
(* The manager called from several threads.  P2PManager holds no lock, so  *)
(* the statements of two calls, and of the handler threads of the announce *)
(* server, interleave; a step below is one statement of the source, line   *)
(* 220 being the evaluation of its right-hand side and then the store.     *)
(***************************************************************************)

ThreadStep(t, rec) ==
    /\ threads' = [threads EXCEPT ![t] = rec]
    /\ UNCHANGED <<serverVars, handleVars, peerVars, dnsVars>>

\* lines 186-215 of install_site in thread t: the download and the two
\* writes succeed, and the CachedSite is built
InstallSiteBegin(t, source, alias, hostname, content) ==
    /\ threads[t].pc = "idle"
    /\ fs' = write_bytes(
                write_bytes(
                   ensure_directory(ensure_directory(fs, cache_path_for(alias)),
                                    data_path_for(alias)),
                   PathJoin(cache_path_for(alias), SiteHtml), content),
                PathJoin(data_path_for(alias), SiteHtml), content)
    /\ ThreadStep(t, [IdleThread EXCEPT
                         !.pc = "filter", !.op = "install_site", !.alias = alias,
                         !.site = CachedSite(alias, normalise_source(source), hostname,
                                             cache_path_for(alias),
                                             data_path_for(alias)),
                         !.found = cached_sites])
    /\ UNCHANGED <<cached_sites, public_ip, p2p_server, sites_json, last, ops>>

\* line 220, right-hand side: the list of the entries of other aliases
RegisterSiteFilter(t) ==
    /\ threads[t].pc = "filter"
    /\ ThreadStep(t, [threads[t] EXCEPT
                         !.pc = "store",
                         !.kept = SelectSeq(cached_sites,
                                            LAMBDA existing :
                                               existing.alias # threads[t].alias)])
    /\ UNCHANGED p2pVars

\* line 220, the assignment: self.cached_sites is that list
RegisterSiteStore(t) ==
    /\ threads[t].pc = "store"
    /\ cached_sites' = threads[t].kept
    /\ ThreadStep(t, [threads[t] EXCEPT !.pc = "append"])
    /\ UNCHANGED <<public_ip, p2p_server, sites_json, fs, last, ops>>

\* lines 227-232 of mark_site_cached in thread t: the directories, the
\* membership test, and the placeholder when the alias has no entry
MarkSiteCachedBegin(t, alias) ==
    /\ threads[t].pc = "idle"
    /\ fs' = ensure_directory(ensure_directory(fs, cache_path_for(alias)),
                              data_path_for(alias))
    /\ ThreadStep(t, [IdleThread EXCEPT
                         !.pc = IF alias \notin AliasesOf(cached_sites)
                                THEN "append" ELSE "done",
                         !.op = "mark_site_cached", !.alias = alias,
                         !.site = CachedSite(alias, << >>, << >>,
                                             cache_path_for(alias),
                                             data_path_for(alias)),
                         !.found = cached_sites])
    /\ UNCHANGED <<cached_sites, public_ip, p2p_server, sites_json, last, ops>>

\* lines 221 and 233: self.cached_sites.append(site)
AppendSite(t) ==
    /\ threads[t].pc = "append"
    /\ cached_sites' = Append(cached_sites, threads[t].site)
    /\ ThreadStep(t, [threads[t] EXCEPT !.pc = "dump"])
    /\ UNCHANGED <<public_ip, p2p_server, sites_json, fs, last, ops>>

\* line 161 of _write_metadata: data = [site.to_dict() for site in ...]
WriteMetadataDump(t) ==
    /\ threads[t].pc = "dump"
    /\ ThreadStep(t, [threads[t] EXCEPT !.pc = "write",
                                        !.data = MetadataOf(cached_sites)])
    /\ UNCHANGED p2pVars

\* line 163 of _write_metadata: write_text(json.dumps(data)), which succeeds
WriteMetadataWrite(t) ==
    /\ threads[t].pc = "write"
    /\ sites_json' = RegularFile(threads[t].data)
    /\ ThreadStep(t, [threads[t] EXCEPT !.pc = "done"])
    /\ UNCHANGED <<cached_sites, public_ip, p2p_server, fs, last, ops>>

\* no thread has called the manager yet
NoThreadYet == \A t \in Threads : threads[t].pc = "idle"

\* the main thread installs sites and starts the announce server; then the
\* threads call install_site and mark_site_cached while a peer asks for the
\* directory
ThreadsNext ==
    \/ /\ NoThreadYet
       /\ \E alias \in Aliases :
             InstallSite(<<120, 46, 121>>, alias, <<104>>,
                         [ok |-> TRUE, content |-> <<60>>], "both", TRUE)
    \/ NoThreadYet /\ StartServer(DEFAULT_PUBLIC_IP, TRUE, TRUE)
    \/ \E t \in Threads, alias \in Aliases :
          InstallSiteBegin(t, <<32, 115, 58, 47, 47, 122>>, alias, <<105>>, <<60>>)
    \/ \E t \in Threads, alias \in Aliases : MarkSiteCachedBegin(t, alias)
    \/ \E t \in Threads : RegisterSiteFilter(t)
    \/ \E t \in Threads : RegisterSiteStore(t)
    \/ \E t \in Threads : AppendSite(t)
    \/ \E t \in Threads : WriteMetadataDump(t)
    \/ \E t \in Threads : WriteMetadataWrite(t)
    \/ PeerRequest(<<76, 73, 83, 84, 10>>, TRUE)

SpecThreads == ManagerInit /\ [][ThreadsNext]_vars

(***************************************************************************)
(* Module dns called as a library: describe, zone, node and name           *)
(***************************************************************************)

\* the number of calls one caller makes
MaxDnsCalls == 3

\* the domains a caller passes:
\*   (empty)   "   "   .   http://   /x
\*   localhost   example.com   www.example.com   mail.internal.example.com
\*   WWW.Example.com   a..b.c   www.example.com.   http://u@www.example.com:80/p
\*   hello.github.io   hello.github.io/hi   https://Hello.GitHub.io/Hi_There/x
\*   -.github.io   x.y.github.io/p   .github.io/hi   github.io
\*   hello.github.io/---   " /x."
DnsDomains ==
    { << >>,
      <<32, 32, 32>>,
      <<46>>,
      <<104, 116, 116, 112, 58, 47, 47>>,
      <<47, 120>>,
      <<108, 111, 99, 97, 108, 104, 111, 115, 116>>,
      <<101, 120, 97, 109, 112, 108, 101, 46, 99, 111, 109>>,
      <<119, 119, 119, 46, 101, 120, 97, 109, 112, 108, 101, 46, 99, 111, 109>>,
      <<109, 97, 105, 108, 46, 105, 110, 116, 101, 114, 110, 97, 108, 46,
        101, 120, 97, 109, 112, 108, 101, 46, 99, 111, 109>>,
      <<87, 87, 87, 46, 69, 120, 97, 109, 112, 108, 101, 46, 99, 111, 109>>,
      <<97, 46, 46, 98, 46, 99>>,
      <<119, 119, 119, 46, 101, 120, 97, 109, 112, 108, 101, 46, 99, 111, 109, 46>>,
      <<104, 116, 116, 112, 58, 47, 47, 117, 64, 119, 119, 119, 46, 101, 120, 97,
        109, 112, 108, 101, 46, 99, 111, 109, 58, 56, 48, 47, 112>>,
      <<104, 101, 108, 108, 111, 46, 103, 105, 116, 104, 117, 98, 46, 105, 111>>,
      <<104, 101, 108, 108, 111, 46, 103, 105, 116, 104, 117, 98, 46, 105, 111,
        47, 104, 105>>,
      <<104, 116, 116, 112, 115, 58, 47, 47, 72, 101, 108, 108, 111, 46, 71, 105,
        116, 72, 117, 98, 46, 105, 111, 47, 72, 105, 95, 84, 104, 101, 114, 101,
        47, 120>>,
      <<45, 46, 103, 105, 116, 104, 117, 98, 46, 105, 111>>,
      <<120, 46, 121, 46, 103, 105, 116, 104, 117, 98, 46, 105, 111, 47, 112>>,
      <<46, 103, 105, 116, 104, 117, 98, 46, 105, 111, 47, 104, 105>>,
      <<103, 105, 116, 104, 117, 98, 46, 105, 111>>,
      <<104, 101, 108, 108, 111, 46, 103, 105, 116, 104, 117, 98, 46, 105, 111,
        47, 45, 45, 45>>,
      <<32, 47, 120, 46>> }

\* the suffixes a caller passes to name:  zwb   .x.   a.b   .   (empty)
DnsSuffixes ==
    { ZWB, <<46, 120, 46>>, <<97, 46, 98>>, <<46>>, << >> }

\* lines 239-243: describe(raw), through the memo of lru_cache
Describe(raw) ==
    /\ dcalls < MaxDnsCalls
    /\ dcalls' = dcalls + 1
    /\ memo' = describe(memo, raw).memo
    /\ dlast' = DnsCall("describe", raw, ZWB, describe(memo, raw).result)
    /\ UNCHANGED <<args, pc, servers, sock, stdout, backlog, cur, conn>>
    /\ UNCHANGED <<din, handleVars, p2pVars, peerVars, threadVars>>

\* lines 159-179: zone(domain)
Zone(domain) ==
    /\ dcalls < MaxDnsCalls
    /\ dcalls' = dcalls + 1
    /\ dlast' = DnsCall("zone", domain, ZWB, zone(domain))
    /\ UNCHANGED <<din, serverVars, handleVars, p2pVars, peerVars, threadVars>>

\* lines 182-203: node(domain)
Node(domain) ==
    /\ dcalls < MaxDnsCalls
    /\ dcalls' = dcalls + 1
    /\ dlast' = DnsCall("node", domain, ZWB, node(domain))
    /\ UNCHANGED <<din, serverVars, handleVars, p2pVars, peerVars, threadVars>>

\* lines 206-218: name(domain, suffix)
Name(domain, suffix) ==
    /\ dcalls < MaxDnsCalls
    /\ dcalls' = dcalls + 1
    /\ dlast' = DnsCall("name", domain, suffix, name(domain, suffix))
    /\ UNCHANGED <<din, serverVars, handleVars, p2pVars, peerVars, threadVars>>

\* a caller with one domain and one suffix, before its first call
DnsInit ==
    /\ ServerInit /\ args.extra_servers = << >>
    /\ HandleIdle
    /\ P2PInit
    /\ PeerIdle
    /\ ThreadsIdle
    /\ din \in [raw : DnsDomains, suffix : DnsSuffixes]
    /\ dlast = NoDnsCall
    /\ dcalls = 0

DnsNext ==
    \/ Describe(din.raw)
    \/ Zone(din.raw)
    \/ Node(din.raw)
    \/ Name(din.raw, din.suffix)

SpecDns == DnsInit /\ [][DnsNext]_vars

(***************************************************************************)
(* describe called in a process whose memo is nearly full                  *)
(***************************************************************************)

\* the i-th of the inputs that filled the memo: "h1", "h2", ...
MemoKey(i) == <<104>> \o Decimal(i)

\* what a successful describe(raw) stores
MemoEntry(raw) == [key |-> raw, value |-> describe_uncached(raw)]

\* the memo after describe(first), describe("h1"), ..., describe("h<n>")
Prefilled(first, n) ==
    <<MemoEntry(first)>> \o [i \in 1..n |-> MemoEntry(MemoKey(i))]

\* the inputs of the calls that follow:  a.b   A.b   (empty)   h1   c.github.io/d
MemoInputs ==
    { <<97, 46, 98>>,
      <<65, 46, 98>>,
      << >>,
      MemoKey(1),
      <<99, 46, 103, 105, 116, 104, 117, 98, 46, 105, 111, 47, 100>> }

\* the process after describe("a.b") and enough other inputs to leave room
\* for one more entry, or for none
MemoInit ==
    /\ args \in ServeArgs /\ args.extra_servers = << >>
    /\ pc = "start" /\ servers = << >> /\ sock = "none" /\ stdout = << >>
    /\ backlog = << >> /\ cur = 0 /\ conn = [c \in Conns |-> NewConn]
    /\ memo \in {Prefilled(<<97, 46, 98>>, n) : n \in {lru_maxsize - 2, lru_maxsize - 1}}
    /\ HandleIdle
    /\ P2PInit
    /\ PeerIdle
    /\ ThreadsIdle
    /\ DnsIdle

MemoNext == \E raw \in MemoInputs : Describe(raw)

SpecMemo == MemoInit /\ [][MemoNext]_vars

(***************************************************************************)
(* The cache manager constructed over a data directory that holds a        *)
(* sites.json of any content                                               *)
(***************************************************************************)

\* a complete site object as JSON: alias "a", source "http://x", hostname "h"
JsonSite(alias, cache_path) ==
    [t |-> "object",
     o |-> [alias |-> alias,
            source |-> [t |-> "string", s |-> <<104, 116, 116, 112, 58, 47, 47, 120>>],
            hostname |-> [t |-> "string", s |-> <<104>>],
            cache_path |-> cache_path,
            data_path |-> [t |-> "string", s |-> <<100, 97, 116, 97, 47, 97>>]]]

\* the values json.loads may return for a sites.json the manager did not
\* write: [], {}, {"alias": "a"}, 5, null, true, "abc", "", [1, 2], ["a"],
\* [null], [{"alias": "a"}], a complete site, a site with the alias 5, a site
\* with the cache_path 7, a site followed by a number, a site after an
\* incomplete one, the same alias twice
JsonValues ==
    LET str(s) == [t |-> "string", s |-> s]
        num(n) == [t |-> "number", n |-> n]
        arr(x) == [t |-> "array", a |-> x]
        a == str(<<97>>)
        path == str(<<99, 97, 99, 104, 101, 47, 97>>)
        partial == [t |-> "object", o |-> [alias |-> a]]
    IN { arr(<< >>),
         [t |-> "object", o |-> << >>],
         partial,
         num(5),
         [t |-> "null"],
         [t |-> "bool", b |-> TRUE],
         str(<<97, 98, 99>>),
         str(<< >>),
         arr(<<num(1), num(2)>>),
         arr(<<a>>),
         arr(<<[t |-> "null"]>>),
         arr(<<partial>>),
         arr(<<JsonSite(a, path)>>),
         arr(<<JsonSite(num(5), path)>>),
         arr(<<JsonSite(a, num(7))>>),
         arr(<<JsonSite(a, path), num(5)>>),
         arr(<<partial, JsonSite(a, path)>>),
         arr(<<JsonSite(a, path), JsonSite(a, path)>>) }

\* what data/sites.json may hold when the manager is constructed
DiskFiles ==
    {NoFile, [kind |-> "unreadable"], [kind |-> "text"], [kind |-> "bytes"],
     RegularFile(<< >>),
     RegularFile(MetadataOf(<<CachedSite(<<97>>, << >>, << >>, cache_path_for(<<97>>),
                                         data_path_for(<<97>>))>>))}
    \cup {[kind |-> "json", value |-> j] : j \in JsonValues}

\* the directories before the first manager is constructed over them
LoadInit ==
    /\ ServerInit /\ args.extra_servers = << >>
    /\ HandleIdle
    /\ cached_sites = << >>
    /\ public_ip = DEFAULT_PUBLIC_IP
    /\ p2p_server = NoServer
    /\ sites_json \in DiskFiles
    /\ PeerIdle
    /\ ThreadsIdle
    /\ DnsIdle
    /\ fs = (DataDir :> Directory)
    /\ last = NoCall
    /\ ops = 0

\* a manager was constructed: the last __post_init__ returned
Constructed == last.op # "none" /\ (last.op = "__post_init__" => last.result = "ok")

LoadNext ==
    \/ Construct
    \/ Constructed /\ \E alias \in Aliases, written \in BOOLEAN : MarkSiteCached(alias, written)
    \/ Constructed /\ StopServer

SpecLoad == LoadInit /\ [][LoadNext]_vars

(***************************************************************************)
(* The resolution server: connections                                      *)
(***************************************************************************)

\* a connected client that has stalled: the connection is open and the
\* server has nothing to read from it
Stalled(c) ==
    conn[c].st = "accepted" /\ conn[c].wire = << >> /\ ~conn[c].fin /\ ~conn[c].rst

\* C1: a stalled client never keeps the listener from another client's
\* connection: serve() is never waiting in recv on a stalled client while the
\* connection of another client, with its whole request line sent, waits
\* in the backlog.
C1_StalledClientNeverBlocksAccept ==
    ~ /\ pc = "recv"
      /\ cur # 0
      /\ Stalled(cur)
      /\ \E d \in Conns : conn[d].st = "queued" /\ EndsWith(conn[d].wire, <<NL>>)

\* C2: one connection is one request.  Every connection the server has closed
\* after reading its request has received exactly one JSON document followed
\* by a newline; no connection has received anything before it was closed, so
\* the server reads nothing from a connection it has answered, and it reads
\* only from the connection it has accepted and not answered yet.
C2_OneRequestOneResponse ==
    /\ \A c \in Conns :
          IF conn[c].st = "closed"
          THEN /\ Len(conn[c].resp) = 2
               /\ "status" \in DOMAIN conn[c].resp[1]
               /\ conn[c].resp[2] = 10
          ELSE conn[c].resp = << >>
    /\ pc \in {"recv", "respond"} => cur \in Conns /\ conn[cur].st = "accepted"

\* a connection answered after its first line, sent apart from a byte that
\* followed it
C2_Witness ==
    \E c \in Conns :
        /\ conn[c].st = "closed"
        /\ conn[c].data = <<97, 10>>
        /\ Len(conn[c].resp) = 2

\* the requests that fail at the protocol layer: bytes that are not UTF-8, an
\* empty request, and text that describe rejects
ProtocolFailure(data) ==
    \/ ~Utf8Decode(data).ok
    \/ Strip(Utf8Decode(data).text) = << >>
    \/ /\ Upper(Strip(Utf8Decode(data).text)) \notin {PING, SERVERS}
       /\ ~describe_uncached(Strip(Utf8Decode(data).text)).ok

\* C5: a protocol-layer failure is answered with a structured error response
\* on its connection and does not end the listener loop: the connection is
\* closed only with that response on it, serve() ends only when bind fails or
\* a client resets its connection, a connection is dropped unanswered only
\* then, and between two connections serve() is back at accept.
C5_ProtocolFailuresAnswered ==
    /\ \A c \in Conns :
          conn[c].st = "closed" /\ ProtocolFailure(conn[c].data)
          => /\ Len(conn[c].resp) = 2
             /\ conn[c].resp[1].status = "error"
             /\ conn[c].resp[1].message # << >>
             /\ conn[c].resp[2] = 10
    /\ pc = "crashed" => stdout = << >> \/ \E c \in Conns : conn[c].rst
    /\ \A c \in Conns : conn[c].st = "dropped" => \E d \in Conns : conn[d].rst
    /\ cur = 0 /\ stdout # << >> /\ pc # "crashed" => pc = "accept"

\* a request that is not UTF-8 was answered with an error, and the next
\* connection was accepted and answered after it
C5_Witness ==
    /\ conn[1].st = "closed"
    /\ ~Utf8Decode(conn[1].data).ok
    /\ conn[1].resp[1].status = "error"
    /\ conn[2].st = "closed"
    /\ conn[2].resp[1].status = "ok"

\* C6: READY <host>:<port> is printed exactly once, after the socket listens
\* and before the first accept: nothing is printed while the socket is not
\* listening yet, the line is there before serve() accepts, and no second
\* line follows while connections are accepted and answered.
C6_ReadyOnceBeforeAccept ==
    /\ sock \in {"none", "bound"} => stdout = << >>
    /\ stdout # << >> => stdout = << <<"READY ", args.host, ":", args.port>> >>
    /\ pc \in {"accept", "recv", "respond"} => Len(stdout) = 1
    /\ \A c \in Conns : conn[c].st \in {"accepted", "closed"} => Len(stdout) = 1

\* both connections were accepted and answered and the line was printed once
C6_Witness ==
    /\ \A c \in Conns : conn[c].st = "closed"
    /\ Len(stdout) = 1

(***************************************************************************)
(* The resolution server: requests and responses                           *)
(***************************************************************************)

\* the last request as text (when it was valid UTF-8), stripped
HRequest == Strip(Utf8Decode(hdata).text)

\* the last response document
HResponse == hpayload[1]

Handled == calls > 0 /\ Len(hpayload) = 2 /\ hpayload[2] = 10

\* text that is PING in some letter case
IsPingText(s) ==
    /\ Len(s) = 4
    /\ s[1] \in {80, 112} /\ s[2] \in {73, 105} /\ s[3] \in {78, 110}
    /\ s[4] \in {71, 103}

\* text that is SERVERS in some letter case
IsServersText(s) ==
    /\ Len(s) = 7
    /\ s[1] \in {83, 115} /\ s[2] \in {69, 101} /\ s[3] \in {82, 114}
    /\ s[4] \in {86, 118} /\ s[5] \in {69, 101} /\ s[6] \in {82, 114}
    /\ s[7] \in {83, 115}

\* the last request was a lookup: valid UTF-8, not empty, not a command
IsLookup ==
    /\ calls > 0
    /\ Utf8Decode(hdata).ok
    /\ HRequest # << >>
    /\ ~IsPingText(HRequest)
    /\ ~IsServersText(HRequest)

\* C3: a request that is neither empty nor PING nor SERVERS is answered from
\* describe of the stripped line: with status ok, the four facets of its
\* DomainParts and the domain server when describe succeeds, and with status
\* error, the error text, the domain server and a non-empty HTML page (naming
\* the request and the reason) when describe raises ValueError.
C3_LookupResponse ==
    IsLookup =>
        /\ Handled
        /\ IF describe_uncached(HRequest).ok
           THEN HResponse =
                   [status |-> "ok",
                    hostname |-> describe_uncached(HRequest).parts.hostname,
                    zone |-> describe_uncached(HRequest).parts.zone,
                    node |-> describe_uncached(HRequest).parts.node,
                    name |-> describe_uncached(HRequest).parts.name,
                    domain_server |-> args.domain_server]
           ELSE /\ DOMAIN HResponse = {"status", "message", "domain_server", "error_page"}
                /\ HResponse.status = "error"
                /\ HResponse.message = describe_uncached(HRequest).error
                /\ HResponse.domain_server = args.domain_server
                /\ Len(HResponse.error_page) = 5
                /\ HResponse.error_page[2] = HRequest
                /\ HResponse.error_page[4] = describe_uncached(HRequest).error

\* a lookup that describe rejected, after a lookup that succeeded
C3_Witness ==
    /\ IsLookup
    /\ HResponse.status = "error"
    /\ Len(memo) = 1
    /\ calls = 2

\* C4: every error response has the error schema: status, message,
\* domain_server and a non-empty error_page, also when the request was not
\* valid UTF-8.
C4_ErrorSchema ==
    calls > 0 /\ HResponse.status = "error"
    => /\ DOMAIN HResponse = {"status", "message", "domain_server", "error_page"}
       /\ HResponse.domain_server = args.domain_server
       /\ HResponse.error_page # << >>

\* the last request was PING in some letter case, surrounding whitespace
\* ignored
IsPing == calls > 0 /\ Utf8Decode(hdata).ok /\ IsPingText(HRequest)

\* C7: PING in any letter case is answered with status ok, message pong and
\* the configured domain server, and is never passed to describe: the memo
\* is as it was before the request, and no PING is ever a key of the memo
\* (describe would have stored it).
C7_PingPong ==
    /\ IsPing =>
          /\ Handled
          /\ HResponse = [status |-> "ok", message |-> <<112, 111, 110, 103>>,
                          domain_server |-> args.domain_server]
          /\ memo = hmemo
    /\ \A i \in 1..Len(memo) : ~IsPingText(memo[i].key)

\* a PING in mixed case between whitespace was answered
C7_Witness ==
    /\ IsPing
    /\ hdata = <<32, 80, 105, 78, 103, 32, 9, 10>>
    /\ HResponse.message = <<112, 111, 110, 103>>

\* the last request was empty or whitespace only
IsEmptyRequest ==
    /\ calls > 0
    /\ Utf8Decode(hdata).ok
    /\ \A i \in 1..Len(hdata) : hdata[i] \in {9, 10, 11, 12, 13, 28, 29, 30, 31, 32}

\* C8: an empty or whitespace-only request is answered with status error,
\* the message "no domain provided", the configured domain server and a
\* non-empty error page.
C8_NoDomainProvided ==
    IsEmptyRequest =>
        /\ Handled
        /\ DOMAIN HResponse = {"status", "message", "domain_server", "error_page"}
        /\ HResponse.status = "error"
        /\ HResponse.message =
              <<110, 111, 32, 100, 111, 109, 97, 105, 110, 32, 112, 114, 111, 118,
                105, 100, 101, 100>>
        /\ HResponse.domain_server = args.domain_server
        /\ Len(HResponse.error_page) = 5
        /\ HResponse.error_page[2] # << >>
        /\ HResponse.error_page[4] = HResponse.message

\* a request of whitespace only was answered
C8_Witness ==
    /\ IsEmptyRequest
    /\ Len(hdata) > 1
    /\ HResponse.status = "error"

\* the last request was SERVERS in some letter case
IsServers == calls > 0 /\ Utf8Decode(hdata).ok /\ IsServersText(HRequest)

\* the extra servers the operator supplied with an address
ExtrasWithAddress ==
    SelectSeq(args.extra_servers,
              LAMBDA e : "address" \in DOMAIN e /\ e.address # "")

\* C9 as stated: the servers list is the domain server, the local helper, and
\* one entry for each operator-supplied extra server in the order supplied.
C9_OneEntryPerExtraServer ==
    IsServers =>
        /\ Len(HResponse.servers) = 2 + Len(args.extra_servers)
        /\ \A i \in 1..Len(args.extra_servers) :
              /\ 2 + i <= Len(HResponse.servers)
              /\ "address" \in DOMAIN args.extra_servers[i]
              /\ HResponse.servers[2 + i].address = args.extra_servers[i].address

\* C9, amended: SERVERS in any letter case is answered with status ok, the
\* domain server and the servers list, which holds the entry of the
\* configured domain server, the entry of the local helper, and then one entry
\* for each operator-supplied extra server that has a non-empty address, in
\* the order supplied (named "Peer" when it has no name); the list is that of
\* the processor, the same for every request.
C9_ServersList ==
    /\ Len(servers) = 2 + Len(ExtrasWithAddress)
    /\ servers[1] = [name |-> "Domain server", address |-> args.domain_server,
                     description |-> "Primary DNS authority"]
    /\ servers[2].name = "Local helper"
    /\ \A i \in 1..Len(ExtrasWithAddress) :
          /\ servers[2 + i].address = ExtrasWithAddress[i].address
          /\ servers[2 + i].name =
                IF "name" \in DOMAIN ExtrasWithAddress[i] /\ ExtrasWithAddress[i].name # ""
                THEN ExtrasWithAddress[i].name ELSE "Peer"
    /\ IsServers =>
          /\ Handled
          /\ HResponse = [status |-> "ok", domain_server |-> args.domain_server,
                          servers |-> servers]

\* SERVERS was answered by a processor that was given four extra servers, one
\* of them without an address
C9_Witness ==
    /\ IsServers
    /\ Len(args.extra_servers) = 4
    /\ Len(HResponse.servers) = 5
    /\ calls = 2

(***************************************************************************)
(* The cache manager: the directory of sites                               *)
(***************************************************************************)

\* the entries of sites.json, none while the file is missing
PersistedEntries == IF sites_json = NoFile THEN << >> ELSE sites_json.content

\* the positions in the list that hold an entry for the alias
EntriesFor(list, alias) == {i \in 1..Len(list) : list[i].alias = alias}

\* the last call was an install_site that returned its CachedSite
InstalledLast == last.op = "install_site" /\ last.result = "ok"

\* the list holds one entry for the alias of the last install, with the
\* source and the hostname of that install
HoldsLastInstall(list) ==
    /\ Cardinality(EntriesFor(list, last.alias)) = 1
    /\ \A i \in EntriesFor(list, last.alias) :
          list[i].source = last.source /\ list[i].hostname = last.hostname

\* C10: whatever install_site, mark_site_cached and cleanup_on_exit calls were
\* made, no alias occurs twice in cached_sites or in sites.json, and after an
\* install_site that succeeded both hold exactly one entry for its alias, the
\* one with the source and hostname of that install (a second install of the
\* alias replaces the entry of the first).
C10_AliasUniqueLastWriteWins ==
    /\ \A i \in 1..Len(cached_sites) : EntriesFor(cached_sites, cached_sites[i].alias) = {i}
    /\ \A i \in 1..Len(PersistedEntries) :
          EntriesFor(PersistedEntries, PersistedEntries[i].alias) = {i}
    /\ InstalledLast => HoldsLastInstall(cached_sites) /\ HoldsLastInstall(PersistedEntries)

\* an alias was installed a second time with another source, the call
\* returned its CachedSite, and sites.json still holds the entry of the first
\* install, because the second write of the file failed
C10_Witness ==
    /\ InstalledLast
    /\ ops = 2
    /\ HoldsLastInstall(cached_sites)
    /\ \E i \in EntriesFor(PersistedEntries, last.alias) :
          PersistedEntries[i].source # last.source

\* the step is a call of the named method on the manager
CallOf(op) == ops' = ops + 1 /\ last'.op = op

\* the path holds a regular file
IsFile(files, path) == path \in DOMAIN files /\ files[path].kind = "file"

\* C11: an install_site that fails, with DownloadError or with StorageError,
\* leaves cached_sites and sites.json exactly as they were, an entry of the
\* same alias included; an install_site registers its entry only when both
\* site.html files were written, with the same content.
C11_FailedInstallLeavesDirectory ==
    [][CallOf("install_site") =>
          IF last'.result \in {"DownloadError", "StorageError"}
          THEN cached_sites' = cached_sites /\ sites_json' = sites_json
          ELSE /\ last'.result = "ok"
               /\ EntriesFor(cached_sites', last'.alias) = {Len(cached_sites')}
               /\ IsFile(fs', PathJoin(cache_path_for(last'.alias), SiteHtml))
               /\ IsFile(fs', PathJoin(data_path_for(last'.alias), SiteHtml))
               /\ fs'[PathJoin(cache_path_for(last'.alias), SiteHtml)] =
                     fs'[PathJoin(data_path_for(last'.alias), SiteHtml)]]_vars

\* an install of an alias that was installed before, from another source,
\* failed after the download, and the entry of the first install is still the
\* one in cached_sites and in sites.json
C11_Witness ==
    /\ last.op = "install_site"
    /\ last.result = "StorageError"
    /\ \E i \in EntriesFor(cached_sites, last.alias) :
          cached_sites[i].source # last.source /\ cached_sites[i].source # << >>
    /\ \E i \in EntriesFor(PersistedEntries, last.alias) :
          PersistedEntries[i].source # last.source

\* C12: sites.json is rewritten wholesale on every mutation: after every
\* install_site or mark_site_cached call that changes cached_sites and
\* returns without error, sites.json holds exactly the entries of
\* cached_sites, in the same order and with the same field values.
C12_FileFollowsDirectory ==
    [][/\ CallOf("install_site") \/ CallOf("mark_site_cached")
       /\ last'.result = "ok"
       /\ cached_sites' # cached_sites
       => sites_json' = RegularFile(MetadataOf(cached_sites'))]_vars

\* mark_site_cached registered a placeholder and returned, and sites.json is
\* still missing
C12_Witness ==
    /\ last.op = "mark_site_cached"
    /\ last.result = "ok"
    /\ Len(cached_sites) = 1
    /\ cached_sites[1].alias = last.alias
    /\ sites_json = NoFile

\* what the files hold below the durable data root, the root included
DataPart(files) ==
    [p \in {q \in DOMAIN files : Within(q, DataDir)} |-> files[p]]

\* C13 as stated: after cleanup_on_exit the cache root contains no entries,
\* and the data root and sites.json are as they were.
C13_CacheEmptyAfterCleanup ==
    [][CallOf("cleanup_on_exit") =>
          /\ CacheEntries(fs') = {}
          /\ DataPart(fs') = DataPart(fs)
          /\ sites_json' = sites_json]_vars

\* C13, amended: after cleanup_on_exit the cache root contains no entries
\* but those whose deletion failed (none when every deletion succeeded), the
\* cache root itself is still there, and every file below the data root and
\* sites.json are as they were, so an alias installed earlier is still listed
\* in the file.
C13_CacheClearedDataKept ==
    [][CallOf("cleanup_on_exit") =>
          /\ \A kept \in SUBSET CacheEntries(fs) :
                (\E lost \in SUBSET Below(fs, kept) : CleanupOnExit(kept, lost))
                => CacheEntries(fs') = kept
          /\ CacheDir \in DOMAIN fs'
          /\ DataPart(fs') = DataPart(fs)
          /\ sites_json' = sites_json
          /\ cached_sites' = cached_sites]_vars

\* after an install and a cleanup the cache root is empty, the installed
\* site is still in the data directory and still listed in sites.json
C13_Witness ==
    /\ last.op = "cleanup_on_exit"
    /\ ops = 2
    /\ CacheEntries(fs) = {}
    /\ Len(PersistedEntries) = 1
    /\ PersistedEntries[1].source # << >>
    /\ IsFile(fs, PathJoin(PersistedEntries[1].data_path, SiteHtml))

\* C14: cleanup_on_exit stops the announce server and deletes the cache
\* entries best-effort: it never fails, no server is running after it, and
\* every entry whose own deletion did not fail is gone with all that was below
\* it, whatever happened to the other entries.
C14_CleanupBestEffort ==
    [][CallOf("cleanup_on_exit") =>
          /\ last'.result = "ok"
          /\ p2p_server' = NoServer
          /\ \A kept \in SUBSET CacheEntries(fs) :
                (\E lost \in SUBSET Below(fs, kept) : CleanupOnExit(kept, lost))
                => \A e \in CacheEntries(fs) \ kept :
                      \A p \in DOMAIN fs' : ~Within(p, e)]_vars

\* two sites were cached, and a cleanup that could not delete one of them
\* has deleted the other
C14_Witness ==
    /\ last.op = "cleanup_on_exit"
    /\ ops = 3
    /\ Cardinality({p \in DOMAIN fs : Within(p, DataDir) /\ fs[p].kind = "dir"}) = 3
    /\ Cardinality(CacheEntries(fs)) = 1

\* sites.json is not a JSON array of objects
Malformed(file) ==
    \/ file.kind \in {"unreadable", "text", "bytes"}
    \/ /\ file.kind = "json"
       /\ \/ file.value.t # "array"
          \/ \E i \in 1..Len(file.value.a) : file.value.a[i].t # "object"

\* C15: loading the persisted directory at startup never fails: constructing
\* the manager returns whatever sites.json holds, and a missing or malformed
\* sites.json yields an empty SiteDirectory.
C15_LoadNeverFails ==
    last.op = "__post_init__" =>
        /\ last.result = "ok"
        /\ sites_json = NoFile \/ Malformed(sites_json) => cached_sites = << >>

\* constructing the manager over a sites.json that holds a JSON object
\* raised AttributeError
C15_Witness ==
    /\ last.op = "__post_init__"
    /\ last.result = "AttributeError"
    /\ sites_json.kind = "json"
    /\ sites_json.value.t = "object"

\* C16: mark_site_cached(alias) is idempotent: a second call right after a
\* first one for the same alias leaves the SiteDirectory, sites.json and the
\* directories as the first call left them.  With no entry for the alias it
\* appends a placeholder CachedSite with empty source and hostname; with an
\* entry for the alias (placeholder or installed) the SiteDirectory and the
\* persisted file are left unchanged.  Both directories of the alias exist
\* afterwards.
C16_MarkSiteCachedIdempotent ==
    [][CallOf("mark_site_cached") =>
          /\ last.op = "mark_site_cached" /\ last.alias = last'.alias
             => UNCHANGED <<cached_sites, sites_json, fs>>
          /\ last'.alias \notin AliasesOf(cached_sites)
             => /\ cached_sites' =
                      Append(cached_sites,
                             CachedSite(last'.alias, << >>, << >>,
                                        cache_path_for(last'.alias),
                                        data_path_for(last'.alias)))
                /\ sites_json' \in {sites_json, RegularFile(MetadataOf(cached_sites'))}
          /\ last'.alias \in AliasesOf(cached_sites)
             => UNCHANGED <<cached_sites, sites_json>>
          /\ fs'[cache_path_for(last'.alias)] = Directory
          /\ fs'[data_path_for(last'.alias)] = Directory]_vars

\* an alias was installed, then marked twice: the directory still holds the
\* installed entry alone
C16_Witness ==
    /\ ops = 3
    /\ last.op = "mark_site_cached"
    /\ Len(cached_sites) = 1
    /\ cached_sites[1].alias = last.alias
    /\ cached_sites[1].source # << >>
    /\ sites_json = RegularFile(MetadataOf(cached_sites))

\* the handler of the announce server has handled one more connection
PeerHandled == peers' = peers + 1

\* the bytes are PING in some letter case between white space
IsPingPayload(raw) == IsPingText(StripSet(raw, {c \in WhiteSpace : c < 128}))

\* the directory response for the manager as it is before the step
DirectoryResponse ==
    [status |-> "ok", public_ip |-> public_ip,
     sites |-> [i \in 1..Len(cached_sites) |->
                   [alias |-> cached_sites[i].alias,
                    source |-> cached_sites[i].source,
                    hostname |-> cached_sites[i].hostname,
                    cache_path |-> cached_sites[i].cache_path,
                    data_path |-> cached_sites[i].data_path]]]

PongResponse == [status |-> "ok", message |-> MsgPong]

\* C17 as stated: a payload equal to PING (in any letter case, between white
\* space) is answered with pong, and any other payload, an empty one
\* included, with the directory response.
C17_PingElseDirectory ==
    [][PeerHandled /\ peer_reply' # << >> =>
          peer_reply' = <<IF IsPingPayload(peer_raw') THEN PongResponse
                          ELSE DirectoryResponse, NL>>]_vars

\* C17, amended: the payload is read as UTF-8 with the bytes that do not
\* decode dropped.  If what is left is PING (in any letter case, between white
\* space) the answer is {status: "ok", message: "pong"}; for any other
\* payload, an empty one included, it is {status: "ok", public_ip, sites}
\* with one object per CachedSite of the SiteDirectory as it is when the
\* request is handled, in directory order.  The answer is one JSON document
\* and a newline.
C17_PingAfterLenientDecode ==
    [][PeerHandled /\ peer_reply' # << >> =>
          peer_reply' = <<IF IsPingText(Strip(Utf8Ignore(peer_raw'))) THEN PongResponse
                          ELSE DirectoryResponse, NL>>]_vars

\* a peer that sent LIST was answered with a directory of two sites, an
\* installed one and then a placeholder
C17_Witness ==
    /\ peers = 1
    /\ peer_raw = <<76, 73, 83, 84, 10>>
    /\ Len(peer_reply) = 2
    /\ Len(peer_reply[1].sites) = 2
    /\ peer_reply[1].sites[1].source # << >>
    /\ peer_reply[1].sites[2].source = << >>

\* C18: the public_ip field of a directory response is the address the
\* listener is bound to, also when start_server fell back to the wildcard
\* address.
C18_PublicIpIsBoundAddress ==
    [][/\ PeerHandled
       /\ peer_reply' # << >>
       /\ "public_ip" \in DOMAIN peer_reply'[1]
       => peer_reply'[1].public_ip = p2p_server.host]_vars

\* start_server("10.0.0.9") fell back to the wildcard address, and a peer
\* was told 10.0.0.9
C18_Witness ==
    /\ peers = 1
    /\ last.op = "start_server" /\ last.result = "ok"
    /\ p2p_server = ThreadedTCPServer(WILDCARD, DEFAULT_PORT)
    /\ Len(peer_reply) = 2
    /\ "public_ip" \in DOMAIN peer_reply[1]
    /\ peer_reply[1].public_ip = "10.0.0.9"

\* C19: start_server with no server running binds the requested address, or
\* the wildcard address on the same port when that bind failed; when no bind
\* succeeded it fails with RuntimeError and no server is recorded as running
\* (so the next start_server is not rejected as already running).
C19_BindErrorIsRuntimeError ==
    [][CallOf("start_server") /\ p2p_server = NoServer =>
          \/ /\ last'.result = "ok"
             /\ p2p_server' \in {ThreadedTCPServer(public_ip', DEFAULT_PORT),
                                 ThreadedTCPServer(WILDCARD, DEFAULT_PORT)}
          \/ /\ last'.result = "RuntimeError"
             /\ p2p_server' = NoServer]_vars

\* start_server("10.0.0.9") could bind neither 10.0.0.9 nor the wildcard
\* address: the caller got OSError, and no server is recorded
C19_Witness ==
    /\ last.op = "start_server"
    /\ last.result = "OSError"
    /\ public_ip = "10.0.0.9"
    /\ p2p_server = NoServer

\* C20: the manager holds at most one announce listener, and a running one is
\* never replaced: it stays as it is or is shut down.  start_server while one
\* is running fails with RuntimeError and leaves the listener and public_ip
\* unchanged; stop_server leaves no listener running, changes nothing else and
\* succeeds also when none was running; so does the stop at the start of
\* cleanup_on_exit; with no listener running, after a stop_server included, a
\* start_server whose bind succeeds leaves one running.
C20_ServerLifecycle ==
    [][/\ p2p_server # NoServer => p2p_server' \in {p2p_server, NoServer}
       /\ CallOf("start_server") /\ p2p_server # NoServer
          => /\ last'.result = "RuntimeError"
             /\ UNCHANGED <<p2p_server, public_ip>>
       /\ CallOf("stop_server")
          => /\ last'.result = "ok"
             /\ p2p_server' = NoServer
             /\ UNCHANGED <<public_ip, cached_sites, sites_json, fs>>
       /\ CallOf("cleanup_on_exit") => p2p_server' = NoServer
       /\ p2p_server = NoServer /\ (\E ip \in PublicIps : StartServer(ip, TRUE, TRUE))
          => /\ last'.result = "ok"
             /\ p2p_server'.running
             /\ p2p_server'.port = DEFAULT_PORT]_vars

\* start_server("10.0.0.9") was rejected because the listener started with
\* the default address is running, and it still is
C20_Witness ==
    /\ last.op = "start_server"
    /\ last.result = "RuntimeError"
    /\ p2p_server = ThreadedTCPServer(DEFAULT_PUBLIC_IP, DEFAULT_PORT)
    /\ public_ip = DEFAULT_PUBLIC_IP
    /\ ops >= 2

\* C21: on a connection the client keeps open, every command the client
\* sends is answered with its own response: no command the client has sent
\* is left unread by the server.  (A step of the model is a whole run of the
\* handler, so bytes that are unread in a state are read in no later one.)
C21_EveryCommandAnswered == peer_unread = << >>

\* a peer sent PING, got pong, and sent LIST on the same connection
C21_Witness ==
    /\ peers = 1
    /\ peer_raw = <<80, 73, 78, 71>>
    /\ peer_reply = <<[status |-> "ok", message |-> MsgPong], NL>>
    /\ peer_unread = <<76, 73, 83, 84, 10>>

\* a call of the named function of module dns has returned or raised
DnsCalled(op) == dcalls' = dcalls + 1 /\ dlast'.op = op

\* text that is empty or holds white space only
Blank(text) == \A i \in 1..Len(text) : text[i] \in WhiteSpace

\* C22: describe(raw) fails with ValueError for every raw that is empty or
\* holds white space only: no DomainParts is returned, and nothing is
\* memoized, so that the failure repeats on every call.
C22_BlankInputFails ==
    [][DnsCalled("describe") /\ Blank(dlast'.raw) =>
          /\ ~dlast'.out.ok
          /\ "parts" \notin DOMAIN dlast'.out
          /\ memo' = memo
          /\ \A i \in 1..Len(memo') : memo'[i].key # dlast'.raw]_vars

\* describe("   ") has failed for the third time in a row, and the memo is
\* still empty
C22_Witness ==
    /\ dcalls = 3
    /\ dlast.op = "describe"
    /\ dlast.raw = <<32, 32, 32>>
    /\ ~dlast.out.ok
    /\ memo = << >>

\* C23: describe parses strictly: for every raw from which _parse_input
\* extracts no hostname, describe(raw) fails with ValueError and returns no
\* DomainParts built from the best-effort fallback hostname.
C23_DescribeStrict ==
    [][DnsCalled("describe") /\ ~parse_input(dlast'.raw).ok => ~dlast'.out.ok]_vars

\* describe("http://") returned DomainParts with the hostname "http://"
C23_Witness ==
    /\ dlast.op = "describe"
    /\ dlast.raw = <<104, 116, 116, 112, 58, 47, 47>>
    /\ ~parse_input(dlast.raw).ok
    /\ dlast.out.ok
    /\ dlast.out.parts.hostname = dlast.raw

\* C24: memoization is transparent: every describe(raw) returns what the
\* uncached computation returns for raw, be the call a first miss, a hit or
\* a recomputation after the entry was evicted, and a call that repeats the
\* string of the call before returns the same as that call.
C24_MemoTransparent ==
    [][DnsCalled("describe") =>
          /\ dlast'.out = describe_uncached(dlast'.raw)
          /\ dlast.op = "describe" /\ dlast.raw = dlast'.raw
             => dlast'.out = dlast.out]_vars

\* the memo was full with a.b its oldest entry; describe("A.b") evicted a.b,
\* and describe("a.b") has computed it again
C24_Witness ==
    /\ dcalls = 2
    /\ dlast.raw = <<97, 46, 98>>
    /\ dlast.out.ok
    /\ Len(memo) = lru_maxsize
    /\ memo[lru_maxsize].key = <<97, 46, 98>>
    /\ memo[lru_maxsize - 1].key = <<65, 46, 98>>
    /\ memo[1].key = MemoKey(2)

\* the inputs the memo holds
MemoKeys(m) == {m[i].key : i \in 1..Len(m)}

\* C25: the memo is keyed by the exact input string and never holds more than
\* 512 inputs, each once.  A successful describe(raw) leaves raw in the memo
\* as its most recently used entry with the value returned, and the input of
\* the successful call before is still there (a hit counts as a use); an
\* entry leaves the memo only when a new input is stored in a full memo, and
\* then it is the least recently used one alone.
C25_MemoBoundedLru ==
    [][DnsCalled("describe") =>
          /\ Len(memo') <= lru_maxsize
          /\ Cardinality(MemoKeys(memo')) = Len(memo')
          /\ dlast'.out.ok
             => /\ memo'[Len(memo')] = [key |-> dlast'.raw, value |-> dlast'.out]
                /\ dlast.op = "describe" /\ dlast.out.ok
                   => dlast.raw \in MemoKeys(memo')
          /\ IF dlast'.out.ok /\ dlast'.raw \notin MemoKeys(memo)
                /\ Len(memo) = lru_maxsize
             THEN MemoKeys(memo') =
                     (MemoKeys(memo) \ {memo[1].key}) \cup {dlast'.raw}
             ELSE MemoKeys(memo) \subseteq MemoKeys(memo')
          /\ ~dlast'.out.ok => memo' = memo]_vars

\* the memo was full with a.b its oldest entry; describe("a.b") was a hit,
\* and describe("A.b"), another key, has evicted h1 and not a.b
C25_Witness ==
    /\ dcalls = 2
    /\ dlast.raw = <<65, 46, 98>>
    /\ Len(memo) = lru_maxsize
    /\ memo[lru_maxsize].key = <<65, 46, 98>>
    /\ memo[lru_maxsize - 1].key = <<97, 46, 98>>
    /\ memo[1].key = MemoKey(2)
    /\ MemoKey(1) \notin MemoKeys(memo)

\* the label the alias rule chooses: the first path segment, else the owner
ChosenLabel(sp) ==
    IF sp.path_segments # << >> THEN sp.path_segments[1]
    ELSE github_owner(sp.hostname)

\* the hostname is <owner>.github.io and the chosen label sanitises to a
\* non-empty string
AliasApplies(sp) ==
    /\ EndsWith(sp.hostname, GITHUB_PAGES_SUFFIX)
    /\ sanitise_label(ChosenLabel(sp)) # << >>

DotZwb == <<DOT>> \o ZWB

Hello == <<104, 101, 108, 108, 111>>

\* C26: for a hostname <owner>.github.io whose chosen label sanitises to a
\* non-empty string, describe returns zone = name = "<sanitised label>.zwb",
\* the label being the first path segment if there is one and the owner
\* otherwise, and node = the sanitised owner if there is a path segment and
\* "" if there is none: (hello.zwb, "", hello.zwb) for hello.github.io and
\* (hi.zwb, hello, hi.zwb) for hello.github.io/hi.
C26_AliasRule ==
    [][DnsCalled("describe") =>
          /\ AliasApplies(split_hostname_and_path(dlast'.raw))
             => /\ dlast'.out.ok
                /\ dlast'.out.parts.zone =
                      sanitise_label(ChosenLabel(split_hostname_and_path(dlast'.raw)))
                      \o DotZwb
                /\ dlast'.out.parts.name = dlast'.out.parts.zone
                /\ dlast'.out.parts.node =
                      IF split_hostname_and_path(dlast'.raw).path_segments # << >>
                      THEN sanitise_label(
                              github_owner(split_hostname_and_path(dlast'.raw).hostname))
                      ELSE << >>
          /\ dlast'.raw = Hello \o GITHUB_PAGES_SUFFIX
             => dlast'.out.parts =
                   [hostname |-> dlast'.raw, zone |-> Hello \o DotZwb, node |-> << >>,
                    name |-> Hello \o DotZwb]
          /\ dlast'.raw = Hello \o GITHUB_PAGES_SUFFIX \o <<SLASH, 104, 105>>
             => dlast'.out.parts =
                   [hostname |-> Hello \o GITHUB_PAGES_SUFFIX,
                    zone |-> <<104, 105>> \o DotZwb, node |-> Hello,
                    name |-> <<104, 105>> \o DotZwb]]_vars

\* describe("https://Hello.GitHub.io/Hi_There/x") returned zone and name
\* hi-there.zwb and node hello
C26_Witness ==
    /\ dlast.op = "describe"
    /\ dlast.out.ok
    /\ dlast.out.parts.hostname = Hello \o GITHUB_PAGES_SUFFIX
    /\ dlast.out.parts.zone = <<104, 105, 45, 116, 104, 101, 114, 101>> \o DotZwb
    /\ dlast.out.parts.name = dlast.out.parts.zone
    /\ dlast.out.parts.node = Hello

\* the non-empty dot-separated labels of the hostname of a domain
LabelsOf(domain) == NonEmpty(Split(split_hostname_and_path(domain).hostname, DOT))

Example == <<101, 120, 97, 109, 112, 108, 101>>

WwwExampleCom == <<119, 119, 119, 46>> \o Example \o <<46, 99, 111, 109>>

MailInternalExampleCom ==
    <<109, 97, 105, 108, 46, 105, 110, 116, 101, 114, 110, 97, 108, 46>>
    \o Example \o <<46, 99, 111, 109>>

Localhost == <<108, 111, 99, 97, 108, 104, 111, 115, 116>>

\* C27: for every hostname to which the alias rule does not apply, zone
\* depends on the non-empty labels of the hostname alone: "" for none,
\* "L.zwb" for one label L, "<second-to-last label>.zwb" for two or more;
\* zone("localhost") = "localhost.zwb", zone("www.example.com") = "example.zwb".
C27_ZoneOfLabels ==
    [][DnsCalled("zone") =>
          /\ ~AliasApplies(split_hostname_and_path(dlast'.raw))
             => dlast'.out =
                   [ok |-> TRUE,
                    value |->
                       IF LabelsOf(dlast'.raw) = << >> THEN << >>
                       ELSE IF Len(LabelsOf(dlast'.raw)) = 1
                       THEN LabelsOf(dlast'.raw)[1] \o DotZwb
                       ELSE LabelsOf(dlast'.raw)[Len(LabelsOf(dlast'.raw)) - 1]
                            \o DotZwb]
          /\ dlast'.raw = Localhost => dlast'.out.value = Localhost \o DotZwb
          /\ dlast'.raw = WwwExampleCom => dlast'.out.value = Example \o DotZwb]_vars

\* zone("mail.internal.example.com") returned example.zwb
C27_Witness ==
    /\ dlast.op = "zone"
    /\ dlast.raw = MailInternalExampleCom
    /\ Len(LabelsOf(dlast.raw)) = 4
    /\ dlast.out = [ok |-> TRUE, value |-> Example \o DotZwb]

HostnameText(h) ==
    /\ h # << >>
    /\ \A i \in 1..Len(h) : h[i] \in (48..57) \cup (65..90) \cup (97..122) \cup {DASH, DOT}

\* the non-empty labels of a hostname as it is written
RawLabels(h) == NonEmpty(Split(h, DOT))

IsPrefix(p, s) == Len(p) <= Len(s) /\ SubSeq(s, 1, Len(p)) = p

\* node(h) + "." + <second-to-last label of h>
NodeAndZoneLabel(h, nodeValue) ==
    nodeValue \o <<DOT>> \o RawLabels(h)[Len(RawLabels(h)) - 1]

DotSuffix(suffix) == <<DOT>> \o StripSet(suffix, {DOT})

HelloGithubIo == Hello \o GITHUB_PAGES_SUFFIX

\* C31: for a GitHub Pages address to which the alias rule applies and every
\* non-empty suffix, name(domain, suffix) equals name(domain, "zwb"), the
\* ".zwb" alias of the address.
C31_AliasRegardlessOfSuffix ==
    [][DnsCalled("name") /\ AliasApplies(split_hostname_and_path(dlast'.raw))
          /\ dlast'.suffix # << >>
          => /\ dlast'.out = name(dlast'.raw, ZWB)
             /\ dlast'.out.ok
             /\ EndsWith(dlast'.out.value, DotZwb)]_vars

\* name("hello.github.io", "a.b") returned hello.a.b, not hello.zwb
C31_Witness ==
    /\ dlast.op = "name"
    /\ dlast.raw = HelloGithubIo
    /\ dlast.suffix = <<97, 46, 98>>
    /\ dlast.out = [ok |-> TRUE, value |-> Hello \o <<46, 97, 46, 98>>]
    /\ name(dlast.raw, ZWB) = [ok |-> TRUE, value |-> Hello \o DotZwb]

\* the raw text trimmed of white space and of its trailing dots, as a
\* hostname without a path
RawAsHostname(raw) ==
    [ok |-> TRUE, hostname |-> RStripSet(Strip(raw), {DOT}), path_segments |-> << >>]

\* C32: zone(domain) and node(domain) return a string for every input, ""
\* when the trimmed, dot-stripped input is empty; name(domain, suffix) fails
\* only when the hostname is empty or the suffix is empty after its dots are
\* trimmed; and when parsing fails all three work on the trimmed,
\* trailing-dot-stripped raw text as the hostname with no path.
C32_BestEffort ==
    [][/\ DnsCalled("zone") \/ DnsCalled("node")
          => /\ dlast'.out.ok
             /\ RawAsHostname(dlast'.raw).hostname = << >> => dlast'.out.value = << >>
       /\ DnsCalled("name") /\ ~dlast'.out.ok
          => \/ split_hostname_and_path(dlast'.raw).hostname = << >>
             \/ StripSet(dlast'.suffix, {DOT}) = << >>
       /\ DnsCalled("zone") /\ ~parse_input(dlast'.raw).ok
          => dlast'.out = zone_split(RawAsHostname(dlast'.raw))
       /\ DnsCalled("node") /\ ~parse_input(dlast'.raw).ok
          => dlast'.out = node_split(RawAsHostname(dlast'.raw))
       /\ DnsCalled("name") /\ ~parse_input(dlast'.raw).ok
          => dlast'.out = name_split(RawAsHostname(dlast'.raw), dlast'.suffix)]_vars

\* zone(" /x.") returned /x.zwb: no hostname can be parsed from the input,
\* and the trimmed text /x is taken as the hostname
C32_Witness ==
    /\ dlast.op = "zone"
    /\ dlast.raw = <<32, 47, 120, 46>>
    /\ ~parse_input(dlast.raw).ok
    /\ dlast.out = [ok |-> TRUE, value |-> <<47, 120>> \o DotZwb]

\* the hostname ends with the hosting suffix and the label the alias rule
\* chooses sanitises to the empty string
NoAliasLabel(sp) ==
    /\ EndsWith(sp.hostname, GITHUB_PAGES_SUFFIX)
    /\ sanitise_label(ChosenLabel(sp)) = << >>

\* the generic label rules: the second-to-last label (the only one, if
\* single) with .zwb; the labels before the last two (the first, for one or
\* two); the labels with the last one replaced by the suffix (appended, for
\* a single label)
GenericZone(labels) ==
    (IF Len(labels) = 1 THEN labels[1] ELSE labels[Len(labels) - 1]) \o DotZwb

GenericNode(labels) ==
    IF Len(labels) <= 2 THEN labels[1]
    ELSE Join(SubSeq(labels, 1, Len(labels) - 2), DOT)

GenericName(labels, sfx) ==
    IF Len(labels) = 1 THEN labels[1] \o <<DOT>> \o sfx
    ELSE Join(SubSeq(labels, 1, Len(labels) - 1) \o <<sfx>>, DOT)

HelloGithubIoDashes == HelloGithubIo \o <<SLASH, DASH, DASH, DASH>>

\* C36: when the hostname ends with the hosting suffix but the label the
\* alias rule chooses sanitises to "", zone, node and name, and the zone,
\* node and name fields of describe, are the generic label results for the
\* hostname; zone is github.zwb for hello.github.io/---.
C36_EmptyLabelFallsThrough ==
    [][/\ DnsCalled("zone") /\ NoAliasLabel(split_hostname_and_path(dlast'.raw))
          => dlast'.out = [ok |-> TRUE, value |-> GenericZone(LabelsOf(dlast'.raw))]
       /\ DnsCalled("node") /\ NoAliasLabel(split_hostname_and_path(dlast'.raw))
          => dlast'.out = [ok |-> TRUE, value |-> GenericNode(LabelsOf(dlast'.raw))]
       /\ DnsCalled("name") /\ NoAliasLabel(split_hostname_and_path(dlast'.raw))
          /\ StripSet(dlast'.suffix, {DOT}) # << >>
          => dlast'.out =
                [ok |-> TRUE,
                 value |-> GenericName(LabelsOf(dlast'.raw),
                                       StripSet(dlast'.suffix, {DOT}))]
       /\ DnsCalled("describe") /\ NoAliasLabel(split_hostname_and_path(dlast'.raw))
          => /\ dlast'.out.ok
             /\ dlast'.out.parts.zone = GenericZone(LabelsOf(dlast'.raw))
             /\ dlast'.out.parts.node = GenericNode(LabelsOf(dlast'.raw))
             /\ dlast'.out.parts.name = GenericName(LabelsOf(dlast'.raw), ZWB)
       /\ DnsCalled("zone") /\ dlast'.raw = HelloGithubIoDashes
          => dlast'.out.value = <<103, 105, 116, 104, 117, 98>> \o DotZwb]_vars

\* describe("hello.github.io/---") returned the owner's alias hello.zwb as
\* zone and name, with an empty node
C36_Witness ==
    /\ dlast.op = "describe"
    /\ dlast.raw = HelloGithubIoDashes
    /\ NoAliasLabel(split_hostname_and_path(dlast.raw))
    /\ dlast.out.ok
    /\ dlast.out.parts =
          [hostname |-> HelloGithubIo, zone |-> Hello \o DotZwb, node |-> << >>,
           name |-> Hello \o DotZwb]

\* C37: for every raw on which describe succeeds, the zone, node and name
\* fields of describe(raw) equal zone(raw), node(raw) and name(raw), and
\* when the alias rule applies the zone field equals the name field.
C37_DescribeMatchesFacets ==
    [][DnsCalled("describe") /\ dlast'.out.ok
          => /\ dlast'.out.parts.zone = zone(dlast'.raw).value
             /\ dlast'.out.parts.node = node(dlast'.raw).value
             /\ name(dlast'.raw, ZWB).ok
             /\ dlast'.out.parts.name = name(dlast'.raw, ZWB).value
             /\ AliasApplies(split_hostname_and_path(dlast'.raw))
                => dlast'.out.parts.zone = dlast'.out.parts.name]_vars

\* describe("hello.github.io/---") returned zone hello.zwb where
\* zone("hello.github.io/---") is github.zwb, and an empty node where
\* node("hello.github.io/---") is hello
C37_Witness ==
    /\ dlast.op = "describe"
    /\ dlast.raw = HelloGithubIoDashes
    /\ dlast.out.ok
    /\ dlast.out.parts.zone # zone(dlast.raw).value
    /\ zone(dlast.raw).value = <<103, 105, 116, 104, 117, 98>> \o DotZwb
    /\ dlast.out.parts.node = << >>
    /\ node(dlast.raw).value = Hello
    /\ name(dlast.raw, ZWB).value = Hello \o <<46, 103, 105, 116, 104, 117, 98>> \o DotZwb

\* C38: for every SiteDirectory reached through install_site and
\* mark_site_cached, a new manager that loads the sites.json written by the
\* last mutation has the same SiteDirectory: the same aliases, order and
\* fields, placeholder entries and entries with an empty hostname included.
C38_PersistLoadRoundTrip ==
    [][CallOf("__post_init__")
          /\ last.op \in {"install_site", "mark_site_cached"}
          /\ sites_json = RegularFile(MetadataOf(cached_sites))
          => cached_sites' = cached_sites]_vars

\* mark_site_cached("a/b") registered a placeholder and wrote it to
\* sites.json; the manager constructed next loaded an empty SiteDirectory
\* from that file
C38_Witness ==
    /\ ops = 2
    /\ last.op = "__post_init__"
    /\ last.result = "ok"
    /\ sites_json =
          RegularFile(MetadataOf(<< CachedSite(<<97, 47, 98>>, << >>, << >>,
                                               cache_path_for(<<97, 47, 98>>),
                                               data_path_for(<<97, 47, 98>>)) >>))
    /\ cached_sites = << >>

\* the site.html below the cache_path of a site
CachedHtml(site) == PathJoin(site.cache_path, SiteHtml)

\* C39: any two entries of the SiteDirectory with different aliases have
\* different cache_path and different data_path directories, and an
\* install_site leaves the site.html cached for every other alias as it was.
C39_DistinctAliasesDistinctStorage ==
    [][/\ \A i, j \in 1..Len(cached_sites') :
             cached_sites'[i].alias # cached_sites'[j].alias
             => /\ cached_sites'[i].cache_path # cached_sites'[j].cache_path
                /\ cached_sites'[i].data_path # cached_sites'[j].data_path
       /\ CallOf("install_site")
          => \A i \in 1..Len(cached_sites) :
                cached_sites[i].alias # last'.alias /\ IsFile(fs, CachedHtml(cached_sites[i]))
                => fs'[CachedHtml(cached_sites[i])] = fs[CachedHtml(cached_sites[i])]]_vars

\* a/b was installed with the body "<" and a-b with the body ">": both
\* entries name cache/a-b, whose site.html now holds ">"
C39_Witness ==
    /\ ops = 2
    /\ last.op = "install_site"
    /\ Len(cached_sites) = 2
    /\ cached_sites[1].alias = <<97, 47, 98>>
    /\ cached_sites[2].alias = <<97, 45, 98>>
    /\ cached_sites[1].cache_path = cached_sites[2].cache_path
    /\ cached_sites[1].data_path = cached_sites[2].data_path
    /\ fs[CachedHtml(cached_sites[1])] = RegularFile(<<62>>)

\* C35: the server reads a request until a newline-terminated line or EOF:
\* whatever the chunking, it is never about to read again from a connection
\* whose received bytes hold a complete line, extra bytes after the newline
\* or not.
C35_StopsAtCompleteLine ==
    pc = "recv" /\ cur \in Conns
    => \A i \in 1..Len(conn[cur].data) : conn[cur].data[i] # NL

\* the client sent a\nb in one write and keeps the connection open: serve()
\* has received the three bytes and waits in recv for more
C35_Witness ==
    /\ pc = "recv"
    /\ cur \in Conns
    /\ conn[cur].data = <<97, NL, 98>>
    /\ conn[cur].wire = << >>
    /\ conn[cur].plan = << >>
    /\ ~conn[cur].fin /\ ~conn[cur].rst
    /\ conn[cur].resp = << >>

\* C40: the server keeps serving after any single connection ends: whatever
\* one client does, the listener stays open and no connection is dropped
\* unanswered, so a pending connection is still accepted and answered.
C40_KeepsServing ==
    [][/\ sock = "listening" => sock' = "listening"
       /\ \A c \in Conns : conn'[c].st # "dropped"]_vars

\* the first client reset its connection while serve() was receiving from
\* it: serve() ended, and the second connection, waiting in the backlog, was
\* dropped without an answer
C40_Witness ==
    /\ pc = "crashed"
    /\ sock = "closed"
    /\ conn[1].rst /\ conn[1].st = "dropped" /\ conn[1].data = << >>
    /\ ~conn[2].rst /\ conn[2].st = "dropped" /\ conn[2].resp = << >>

\* every thread has finished its call
AllDone == \A t \in Threads : threads[t].pc = "done"

\* C33: install_site and mark_site_cached called at the same time are
\* serialized: when all calls have returned, no registered entry is lost (the
\* alias of every call, and every alias a call found registered, is in the
\* SiteDirectory), no alias is there twice, and sites.json equals the
\* SiteDirectory in memory.
C33_SingleWriter ==
    AllDone =>
        /\ \A t \in Threads :
              /\ threads[t].alias \in AliasesOf(cached_sites)
              /\ AliasesOf(threads[t].found) \subseteq AliasesOf(cached_sites)
        /\ \A i, j \in 1..Len(cached_sites) :
              i # j => cached_sites[i].alias # cached_sites[j].alias
        /\ sites_json = RegularFile(MetadataOf(cached_sites))

\* two threads installed a/b and the empty alias into an empty
\* SiteDirectory at the same time; both calls have returned and the entry of
\* the first thread is not in the SiteDirectory
C33_Witness ==
    /\ AllDone
    /\ threads[1].op = "install_site" /\ threads[1].alias = <<97, 47, 98>>
    /\ threads[2].op = "install_site" /\ threads[2].alias = << >>
    /\ threads[1].found = << >> /\ threads[2].found = << >>
    /\ AliasesOf(cached_sites) = {<< >>}

\* thread t is inside its call
Mutating(t) == threads[t].pc \notin {"idle", "done"}

\* the SiteDirectory as the call of thread t leaves it when nothing else
\* changes it
AfterCall(t) ==
    IF threads[t].op = "install_site"
    THEN register_site(threads[t].found, threads[t].site)
    ELSE IF threads[t].alias \in AliasesOf(threads[t].found) THEN threads[t].found
    ELSE Append(threads[t].found, threads[t].site)

\* C34: a directory response built while one install_site or
\* mark_site_cached runs shows the SiteDirectory either as that call found
\* it or as the call leaves it; for a re-install of an alias, the alias is
\* in the response with its old or its new entry.
C34_NoIntermediateDirectory ==
    [][PeerHandled /\ peer_reply' # << >>
          => \A t \in Threads :
                Mutating(t) /\ (\A u \in Threads \ {t} : threads[u].pc = "idle")
                => peer_reply'[1].sites \in
                      {MetadataOf(threads[t].found), MetadataOf(AfterCall(t))}]_vars

\* a/b was installed; a thread installs it again and has stored the list
\* without the old entry, not yet appended the new one: the peer that asked
\* meanwhile was sent an empty sites array
C34_Witness ==
    /\ peers = 1
    /\ threads[1].op = "install_site" /\ threads[1].pc = "append"
    /\ threads[1].alias = <<97, 47, 98>>
    /\ AliasesOf(threads[1].found) = {<<97, 47, 98>>}
    /\ threads[2].pc = "idle"
    /\ peer_reply # << >>
    /\ peer_reply[1].sites = << >>

====
